---- MODULE Spec2Model ----
(***************************************************************************)
(* A model of the UnderdogCowboy conversation engine:                      *)
(*   core/timeline_editor.py  Timeline and CommandProcessor                *)
(*   core/model.py            the model providers                          *)
(*   core/bck_dialog_manager.py  the dialog managers                       *)
(*   core/commandtools/agent_flow/ui_components/chat_ui.py  the chat widget *)
(*                                                                         *)
(* Python indices are kept as they are in the source (0-based, and         *)
(* current_position may be -1); a TLA+ sequence holds index i at i + 1.    *)
(* A text is a sequence of tokens; the literals the code searches for      *)
(* ('File sent: ', the File Content header, the not-found note) are tokens *)
(* of their own, so that startswith and split are computed, not assumed.   *)
(***************************************************************************)
EXTENDS Integers, Sequences, FiniteSets, TLC

VARIABLES
    history,            \* Timeline.history: sequence of messages
    current_position,   \* Timeline.current_position (a Python index)
    frozen_segments,    \* Timeline.frozen_segments: sequence of [start, end]
    start_mode,         \* Timeline.start_mode
    loaded_filename,    \* Timeline.loaded_filename
    disk,               \* the persisted dialog file, or NoFile
    srcFile,            \* does the file a 'File sent: ' marker names exist
    origin,             \* for each message of history, who put it there
    saved,              \* the Timeline as it was when save last wrote disk
    last,               \* the operation that ran last and how it ended
    pre,                \* the Timeline as it was before that operation
    steps,              \* how many operations have run
    frozen_loaded,      \* <<history>> as the first load of a file with frozen
                        \* segments built it, <<>> before that load
    gen,                \* the last provider call: input, backend, result
    manager,            \* the class DialogManager.__new__ made, or None
    dialogs,            \* BasicDialogManager.dialogs: filename -> processor
    active_dialog,      \* BasicDialogManager.active_dialog
    processors,         \* AgentDialogManager.processors: agent -> processor
    active_agent,       \* AgentDialogManager.active_agent
    model_name,         \* the manager's model_name
    heap,               \* the CommandProcessor objects made so far; a
                        \* processor is named by its place in heap, 0 is none
    on_disk,            \* which dialog files exist under dialog_save_path
    router_last,        \* the manager operation that ran last
    model,              \* CommandProcessor.model of the command-line processor
    command,            \* the process_command call that ran last, and where
                        \* the interactive phase stands
    directory,          \* the files under the root path list_all_dialogs walks
    dialog_names,       \* what list_all_dialogs returned
    credentials,        \* the stored configuration of a provider, per field
    instance,           \* the provider object under construction or built
    twin,               \* a second Timeline, and what was done to the two
    chat                \* a ChatUI: its input, its message queue, its calls

vars == <<history, current_position, frozen_segments, start_mode,
          loaded_filename, disk, srcFile, origin, saved, last, pre, steps,
          frozen_loaded, gen, manager, dialogs, active_dialog, processors,
          active_agent, model_name, heap, on_disk, router_last, model,
          command, directory, dialog_names, credentials, instance, twin,
          chat>>

routerVars == <<manager, dialogs, active_dialog, processors, active_agent,
                model_name, heap, on_disk, router_last>>

processorVars == <<model, command>>

environmentVars == <<directory, dialog_names, credentials, instance, twin,
                     chat>>

timelineVars == <<history, current_position, frozen_segments, start_mode,
                  loaded_filename, disk, srcFile, origin, saved, last, pre,
                  steps, frozen_loaded>>

---------------------------------------------------------------------------
(* Bounds of the model *)

\* longest history of a dialog file that exists before the program runs
MaxFileLen == 2
\* longest history of a dialog file of the save and load runs
MaxLoadLen == 5
\* longest conversation handed to a provider
MaxConv == 3
\* how many operations a run of the Timeline model takes
MaxSteps == 3
\* the longest history a pipeline call starts from
MaxPipeLen == 3

---------------------------------------------------------------------------
(* Texts *)

FileSentMarker == "File sent: "
FileContentHeader == "\n\nFile Content:\n"
NotFoundNote == "\nError: File not found at '"
Quote == "'"
Blank == " "

\* the path a marker names, and what the file holds when it exists
SentPath == <<"notes.txt">>
SentContent == <<"data">>

PlainText == <<"hello">>
MarkerText == <<FileSentMarker>> \o SentPath
ReplyText == <<"reply">>

Min(a, b) == IF a < b THEN a ELSE b
Max(a, b) == IF a > b THEN a ELSE b

\* str.strip() of the text is non-empty
NonBlank(text) == \E i \in 1..Len(text) : text[i] # Blank

\* str.startswith
StartsWith(text, token) == Len(text) >= 1 /\ text[1] = token

\* the first position of token in text, or Len(text) + 1
RECURSIVE FirstAt(_, _, _)
FirstAt(text, token, i) ==
    IF i > Len(text) THEN i
    ELSE IF text[i] = token THEN i
    ELSE FirstAt(text, token, i + 1)

\* text.split(token)[0]
SplitHead(text, token) == SubSeq(text, 1, FirstAt(text, token, 1) - 1)

\* text.split(token)[1], for a text in which token occurs
SplitSecond(text, token) ==
    LET rest == SubSeq(text, FirstAt(text, token, 1) + 1, Len(text))
    IN  SplitHead(rest, token)

---------------------------------------------------------------------------
(* Message and Timeline *)

Roles == {"user", "model", "system"}

Message(role, text) == [role |-> role, text |-> text]

None == "None"
\* no file at the path: open() raises FileNotFoundError
NoFile ==
    [exists |-> FALSE, history |-> <<>>, frozenSegments |-> <<>>,
     startMode |-> "interactive"]
DialogFile == "dialog.json"

\* list.insert(i, x)
ListInsertAtTail(list, i, x) == Append(list, x)
ListInsert(list, i, x) ==
    LET n == Len(list)
        at == IF i >= 0 THEN Min(i, n) ELSE Max(n + i, 0)
    IN  SubSeq(list, 1, at) \o <<x>> \o SubSeq(list, at + 1, n)

\* list.pop()
ListPop(list) == SubSeq(list, 1, Len(list) - 1)

\* range(a, b) as a sequence
Range(a, b) == [k \in 1..Max(b - a, 0) |-> a + k - 1]

\* list[i] for a Python index i, negative ones counting from the end
IndexOK(list, i) == -Len(list) <= i /\ i < Len(list)
At(list, i) == IF i >= 0 THEN list[i + 1] ELSE list[Len(list) + i + 1]

\* Timeline.add_message: where the message goes and where the cursor ends
InsertIndexAtCursor(position) == position
InsertIndex(position) == position + 1
HistoryAfterAdd(h, position, message) ==
    ListInsert(h, InsertIndex(position), message)

\* Timeline.reconstruct_message
ReconstructTextVerbatim(text, exists) == text
ReconstructText(text, exists) ==
    IF StartsWith(text, FileSentMarker)
    THEN LET file_path_part == SplitSecond(text, FileSentMarker)
             file_path == SplitHead(file_path_part, FileContentHeader)
             base_text == SplitHead(text, FileContentHeader)
         IN  IF exists /\ file_path = SentPath
             THEN base_text \o <<FileContentHeader>> \o SentContent
             ELSE base_text \o <<NotFoundNote>> \o file_path \o <<Quote>>
    ELSE text

reconstruct_message(message_data, exists) ==
    Message(message_data.role, ReconstructText(message_data.text, exists))

\* Timeline.save: the start mode it derives and the data it writes
DerivedStartModeInteractive(segments) == "interactive"
DerivedStartMode(segments) ==
    IF Len(segments) > 0 /\ segments[1].start = 0
    THEN "frozen" ELSE "interactive"

SaveDataRolesLost(h, segments) ==
    [exists |-> TRUE,
     history |-> [i \in 1..Len(h) |-> [role |-> "user", text |-> h[i].text]],
     frozenSegments |-> segments,
     startMode |-> DerivedStartMode(segments)]
SaveData(h, segments) ==
    [exists |-> TRUE,
     history |-> [i \in 1..Len(h) |-> [role |-> h[i].role, text |-> h[i].text]],
     frozenSegments |-> segments,
     startMode |-> DerivedStartMode(segments)]

\* Timeline.load, the frozen-segment path: the indices visited, in order
RECURSIVE FlatIndices(_)
FlatIndices(segments) ==
    IF segments = <<>> THEN <<>>
    ELSE Range(segments[1].start, segments[1].end + 1)
             \o FlatIndices(Tail(segments))

\* how many of the visited indices are read before initial_history[idx] fails
RECURSIVE ReadableCount(_, _, _)
ReadableCount(flat, initial_history, k) ==
    IF k > Len(flat) THEN Len(flat)
    ELSE IF ~IndexOK(initial_history, flat[k]) THEN k - 1
    ELSE ReadableCount(flat, initial_history, k + 1)

\* index_mapping: idx in index_mapping, and index_mapping[idx]
InMapping(flat, idx) == \E k \in 1..Len(flat) : flat[k] = idx
NewIndex(flat, idx) ==
    (CHOOSE k \in 1..Len(flat) :
        flat[k] = idx /\ \A j \in (k + 1)..Len(flat) : flat[j] # idx) - 1

\* the segment at its new position
RemapSegmentKeepsIndices(flat, segment) == segment
RemapSegment(flat, segment) ==
    [start |-> NewIndex(flat, segment.start), end |-> NewIndex(flat, segment.end)]

\* how many segments are remapped before index_mapping[...] fails
RECURSIVE RemappableCount(_, _, _)
RemappableCount(flat, segments, k) ==
    IF k > Len(segments) THEN Len(segments)
    ELSE IF ~(InMapping(flat, segments[k].start) /\ InMapping(flat, segments[k].end))
         THEN k - 1
    ELSE RemappableCount(flat, segments, k + 1)

\* Timeline.load of a readable file: the fields of the Timeline afterwards
\* and how the call ended
LoadWholeHistory(data, exists) ==
    [i \in 1..Len(data.history) |-> reconstruct_message(data.history[i], exists)]

LoadFrozenHistoryKeepsAll(data, exists, count) ==
    [i \in 1..Len(data.history) |-> reconstruct_message(data.history[i], exists)]
LoadFrozenHistory(data, exists, count) ==
    LET flat == FlatIndices(data.frozenSegments)
    IN  [k \in 1..count |-> reconstruct_message(At(data.history, flat[k]), exists)]

LoadResult(data, exists, position, filename, old_filename) ==
    IF data.frozenSegments = <<>>
    THEN [outcome |-> "ok",
          history |-> LoadWholeHistory(data, exists),
          frozen_segments |-> <<>>,
          start_mode |-> data.startMode,
          current_position |-> Len(data.history) - 1,
          loaded_filename |-> filename]
    ELSE LET flat == FlatIndices(data.frozenSegments)
             readable == ReadableCount(flat, data.history, 1)
             remappable == RemappableCount(flat, data.frozenSegments, 1)
             remapped == [k \in 1..remappable |->
                             RemapSegment(flat, data.frozenSegments[k])]
         IN  IF readable < Len(flat)
             THEN [outcome |-> "IndexError",
                   history |-> LoadFrozenHistory(data, exists, readable),
                   frozen_segments |-> <<>>,
                   start_mode |-> data.startMode,
                   current_position |-> position,
                   loaded_filename |-> old_filename]
             ELSE IF remappable < Len(data.frozenSegments)
             THEN [outcome |-> "KeyError",
                   history |-> LoadFrozenHistory(data, exists, Len(flat)),
                   frozen_segments |-> remapped,
                   start_mode |-> data.startMode,
                   current_position |-> position,
                   loaded_filename |-> old_filename]
             ELSE [outcome |-> "ok",
                   history |-> LoadFrozenHistory(data, exists, Len(flat)),
                   frozen_segments |-> remapped,
                   start_mode |-> data.startMode,
                   current_position |-> remapped[1].start,
                   loaded_filename |-> filename]

---------------------------------------------------------------------------
(* The dialog files that exist before the program runs *)

FileMessages == {Message("user", MarkerText), Message("model", ReplyText)}

FileHistories == UNION {[1..n -> FileMessages] : n \in 0..MaxFileLen}


\* sorted by start, pairwise disjoint, each with 0 <= start <= end < n
WellFormed(segments, n) ==
    /\ \A k \in 1..Len(segments) :
          /\ 0 <= segments[k].start
          /\ segments[k].start <= segments[k].end
          /\ segments[k].end < n
    /\ \A k \in 1..(Len(segments) - 1) : segments[k].end < segments[k + 1].start

\* every such list over the indices lo..(n - 1)
RECURSIVE SegmentListsFrom(_, _)
SegmentListsFrom(lo, n) ==
    {<<>>} \cup
    UNION {UNION {{<<[start |-> a, end |-> b]>> \o rest :
                      rest \in SegmentListsFrom(b + 1, n)} : b \in a..(n - 1)} :
              a \in lo..(n - 1)}

SegmentLists(n) == {s \in SegmentListsFrom(0, n) : WellFormed(s, n)}

\* the start mode of a file is the one save derives
EnvFiles ==
    UNION {{[exists |-> TRUE, history |-> h, frozenSegments |-> s,
             startMode |-> DerivedStartMode(s)] :
               s \in SegmentLists(Len(h))} : h \in FileHistories}

---------------------------------------------------------------------------
(* What the operations record *)

Snapshot ==
    [history |-> history, current_position |-> current_position,
     frozen_segments |-> frozen_segments, start_mode |-> start_mode,
     loaded_filename |-> loaded_filename]

NoSnapshot == <<>>

\* conversation and calls: what the pipeline handed to generate_content, and
\* how often it called it
Op(op, outcome, role, text, reply) ==
    [op |-> op, outcome |-> outcome, role |-> role, text |-> text, reply |-> reply,
     conversation |-> <<>>, calls |-> 0]

NoCall ==
    [provider |-> None, backend |-> None, conversation |-> <<>>, kind |-> None,
     exception |-> None, model_type |-> None, text |-> <<>>, messages |-> <<>>,
     system |-> <<>>]

Tags(n, tag) == [i \in 1..n |-> tag]

\* the conversation identities of the dialog managers
Filenames == {"one.json", "two.json"}
Agents == {"agent1", "agent2"}

\* what the managers remember, and the record of a manager operation
ManagerState ==
    [dialogs |-> dialogs, active_dialog |-> active_dialog,
     processors |-> processors, active_agent |-> active_agent,
     model_name |-> model_name, heap |-> heap]

RouterOp(op, identity, outcome, returned, cached, selected, selects, calls, given) ==
    [op |-> op, identity |-> identity, outcome |-> outcome, returned |-> returned,
     cached_before |-> cached, selected |-> selected, selects |-> selects,
     calls |-> calls, given |-> given, before |-> ManagerState,
     result |-> "none"]

\* no dialog manager has been constructed
NoManager ==
    /\ manager = None
    /\ dialogs = [f \in Filenames |-> 0]
    /\ active_dialog = None
    /\ processors = [a \in Agents |-> 0]
    /\ active_agent = None
    /\ model_name = None
    /\ heap = <<>>
    /\ on_disk = [f \in Filenames |-> FALSE]
    /\ router_last = RouterOp("init", None, "ok", 0, FALSE, FALSE, 0, 0, None)

\* a provider object the command-line processor holds: the model name it was
\* made for and which construction made it
ModelObject(name, made) == [name |-> name, made |-> made]

\* a process_command call: the command, how the call ended, what it returned,
\* the Timeline and the provider as they were when it started, and whether
\* the call stands in the interactive phase waiting for input
CommandOp(name, outcome, returned, phase, timeline, provider) ==
    [command |-> name, outcome |-> outcome, returned |-> returned,
     phase |-> phase, before |-> timeline, model_before |-> provider]

\* no command-line processor runs
NoProcessor ==
    /\ model = ModelObject(None, 0)
    /\ command = CommandOp(None, "ok", 0, "idle", NoSnapshot, ModelObject(None, 0))

CredentialFields ==
    {"api_key", "api_url", "anthropic_version", "project_id", "location",
     "service_account"}

NoInstance ==
    [provider |-> None, state |-> "none", fields |-> [f \in CredentialFields |-> "absent"],
     prompted |-> {}]

\* the second Timeline as Timeline.__init__ makes it (outcome is how the
\* last operation on it ended), nothing done to either Timeline yet; and a
\* ChatUI as mounted: the input enabled, no message waiting, no call made
NoSession ==
    /\ twin = [timeline |-> [outcome |-> "ok", history |-> <<>>,
                             frozen_segments |-> <<>>,
                             start_mode |-> "interactive",
                             current_position |-> 0, loaded_filename |-> None],
               log |-> <<>>]
    /\ chat = [disabled |-> FALSE, queue |-> <<>>, running |-> {},
               calls |-> {}, submitted |-> 0]

\* nothing is scanned, no provider is under construction, and no second
\* Timeline or chat widget is in use
NoEnvironment ==
    /\ directory = <<>>
    /\ dialog_names = <<>>
    /\ credentials = [f \in CredentialFields |-> "absent"]
    /\ instance = NoInstance
    /\ NoSession

---------------------------------------------------------------------------
(* Timeline and CommandProcessor: the state after construction *)

Init ==
    /\ history = <<>>
    /\ current_position = 0
    /\ frozen_segments = <<>>
    /\ start_mode = "interactive"
    /\ loaded_filename = None
    /\ disk \in {NoFile} \cup EnvFiles
    /\ srcFile \in BOOLEAN
    /\ origin = <<>>
    /\ saved = NoSnapshot
    /\ last = Op("init", "ok", None, <<>>, <<>>)
    /\ pre = Snapshot
    /\ steps = 0
    /\ frozen_loaded = <<>>
    /\ gen = NoCall
    /\ NoManager
    /\ NoProcessor
    /\ NoEnvironment

\* Timeline.add_message(role, text), called on the Timeline directly
AddedMessages == {Message("user", PlainText), Message("model", ReplyText)}

Step == steps < MaxSteps /\ steps' = steps + 1

AddMessage(role, text) ==
    /\ Step
    /\ history' = HistoryAfterAdd(history, current_position, Message(role, text))
    /\ origin' = ListInsert(origin, InsertIndex(current_position), "added")
    /\ current_position' = InsertIndex(current_position)
    /\ last' = Op("add_message", "ok", role, text, <<>>)
    /\ pre' = Snapshot
    /\ UNCHANGED <<frozen_segments, start_mode, loaded_filename, disk, srcFile,
                   saved, frozen_loaded, gen, routerVars, processorVars,
                   environmentVars>>

\* Timeline.save(filename, name, description)
Save ==
    /\ Step
    /\ disk' = SaveData(history, frozen_segments)
    /\ saved' = <<Snapshot>>
    /\ last' = Op("save", "ok", None, <<>>, <<>>)
    /\ pre' = Snapshot
    /\ UNCHANGED <<history, current_position, frozen_segments, start_mode,
                   loaded_filename, srcFile, origin, frozen_loaded, gen,
                   routerVars, processorVars,
                   environmentVars>>

\* Timeline.load(filename)
Load ==
    /\ Step
    /\ IF ~disk.exists
       THEN /\ last' = Op("load", "FileNotFoundError", None, <<>>, <<>>)
            /\ pre' = Snapshot
            /\ UNCHANGED <<history, current_position, frozen_segments, start_mode,
                           loaded_filename, disk, srcFile, origin, saved,
                           frozen_loaded, gen, routerVars, processorVars,
                   environmentVars>>
       ELSE LET r == LoadResult(disk, srcFile, current_position, DialogFile,
                                loaded_filename)
            IN  /\ history' = r.history
                /\ origin' = Tags(Len(r.history), "loaded")
                /\ frozen_segments' = r.frozen_segments
                /\ start_mode' = r.start_mode
                /\ current_position' = r.current_position
                /\ loaded_filename' = r.loaded_filename
                /\ last' = Op("load", r.outcome, None, <<>>, <<>>)
                /\ pre' = Snapshot
                /\ frozen_loaded' =
                       IF /\ frozen_loaded = <<>>
                          /\ r.outcome = "ok"
                          /\ disk.frozenSegments # <<>>
                       THEN <<r.history>> ELSE frozen_loaded
                /\ UNCHANGED <<disk, srcFile, saved, gen, routerVars, processorVars,
                   environmentVars>>

---------------------------------------------------------------------------
(* CommandProcessor: the message pipeline *)

\* CommandProcessor.construct_message: None for a blank message
ConstructsAlways(message) == TRUE
Constructs(message) == NonBlank(message)
construct_message(message, role) == [role |-> role, parts |-> <<message>>]

\* the conversation built from history: its non-blank messages, in order
ConversationOfAll(h) ==
    [i \in 1..Len(h) |-> construct_message(h[i].text, h[i].role)]
ConversationOf(h) ==
    LET kept == SelectSeq(h, LAMBDA m : NonBlank(m.text))
    IN  [i \in 1..Len(kept) |-> construct_message(kept[i].text, kept[i].role)]

\* how the provider call of the pipeline can end. The model is the object the
\* caller gave the processor: it returns a text, raises ModelRequestException
\* (the failure _process_message handles), or raises anything else
ProviderOutcomes == {"ok", "ModelRequestException", "Exception"}

FileDirective == "file "
UserInputs == {PlainText, <<Blank>>, <<FileDirective>> \o SentPath}

\* the record of a pipeline call that reached generate_content: the call is
\* made once, inside the try block, and neither branch makes another
PipelineOpRetried(outcome, user_input, reply, conversation) ==
    [Op("process_message", outcome, "user", user_input, reply)
        EXCEPT !.conversation = conversation,
               !.calls = IF outcome = "ok" THEN 1 ELSE 2]
PipelineOp(outcome, user_input, reply, conversation) ==
    [Op("process_message", outcome, "user", user_input, reply)
        EXCEPT !.conversation = conversation, !.calls = 1]

\* the except branch: the last message goes if its role is 'user'
RollBack(h) == IF At(h, -1).role = "user" THEN ListPop(h) ELSE h
RollBackTags(h, tags) == IF At(h, -1).role = "user" THEN ListPop(tags) ELSE tags

\* CommandProcessor._process_message(user_input)
ProcessMessage(user_input, outcome) ==
    /\ Step
    /\ pre' = Snapshot
    /\ UNCHANGED <<frozen_segments, start_mode, loaded_filename, disk, srcFile,
                   saved, frozen_loaded, gen, routerVars, processorVars,
                   environmentVars>>
    /\ IF StartsWith(user_input, FileDirective)
       THEN \* process_file_input(file_path) is called without its second
            \* parameter: the call raises TypeError before anything is read
            /\ outcome = "ok"
            /\ last' = Op("process_message", "TypeError", "user", user_input, <<>>)
            /\ UNCHANGED <<history, current_position, origin>>
       ELSE IF ~Constructs(user_input)
       THEN /\ outcome = "ok"
            /\ last' = Op("process_message", "EmptyMessage", "user", user_input, <<>>)
            /\ UNCHANGED <<history, current_position, origin>>
       ELSE LET at_user == InsertIndex(current_position)
                conversation == Append(ConversationOf(history),
                                       construct_message(user_input, "user"))
                with_user == HistoryAfterAdd(history, current_position,
                                             Message("user", user_input))
                at_reply == InsertIndex(at_user)
            IN  CASE outcome = "ok" ->
                       /\ history' = HistoryAfterAdd(with_user, at_user,
                                                     Message("model", ReplyText))
                       /\ origin' = ListInsert(ListInsert(origin, at_user, "pipeline_user"),
                                               at_reply, "pipeline_reply")
                       /\ current_position' = at_reply
                       /\ last' = PipelineOp("ok", user_input, ReplyText, conversation)
                  [] outcome = "ModelRequestException" ->
                       /\ history' = RollBack(with_user)
                       /\ origin' = RollBackTags(with_user,
                                        ListInsert(origin, at_user, "failed_user"))
                       /\ current_position' = at_user
                       /\ last' = PipelineOp("ModelRequestException", user_input,
                                             <<>>, conversation)
                  [] outcome = "Exception" ->
                       /\ history' = with_user
                       /\ origin' = ListInsert(origin, at_user, "aborted_user")
                       /\ current_position' = at_user
                       /\ last' = PipelineOp("Exception", user_input, <<>>,
                                             conversation)

---------------------------------------------------------------------------
(* The Timeline and its processor *)

Next ==
    \/ \E m \in AddedMessages : AddMessage(m.role, m.text)
    \/ Save
    \/ Load
    \/ \E user_input \in UserInputs, outcome \in ProviderOutcomes :
          ProcessMessage(user_input, outcome)

Spec == Init /\ [][Next]_vars

---------------------------------------------------------------------------
(* Properties of the message pipeline and of add_message *)

\* the pipeline call that ran last failed at the provider step and took the
\* except branch of _process_message
ProviderFailed ==
    last.op = "process_message" /\ last.outcome = "ModelRequestException"

\* C1: a _process_message call whose provider call fails leaves history with
\* the same length and the same messages, in the same order, as before
C1_HistoryRolledBack == ProviderFailed => history = pre.history

\* C2: after a _process_message call that fails at the provider step the
\* whole Timeline (history, current_position, frozen_segments) is as before
C2_TimelineRestored ==
    ProviderFailed =>
        /\ history = pre.history
        /\ current_position = pre.current_position
        /\ frozen_segments = pre.frozen_segments

\* C3: every user message a pipeline call added is immediately followed by
\* the model reply of a pipeline call, and no user message of a failed call
\* is in history
C3_NoOrphanedUserTurn ==
    /\ \A i \in 1..Len(origin) :
          origin[i] = "pipeline_user" =>
              /\ i < Len(origin)
              /\ origin[i + 1] = "pipeline_reply"
              /\ history[i + 1].role = "model"
    /\ \A i \in 1..Len(origin) : origin[i] # "failed_user"

\* C5: add_message with a cursor p on a message of a non-empty history puts
\* the new message at p + 1, keeps 0..p, shifts the rest up by one and sets
\* current_position to p + 1
C5_InsertAfterCursor ==
    (/\ last.op = "add_message"
     /\ pre.history # <<>>
     /\ 0 <= pre.current_position
     /\ pre.current_position < Len(pre.history)) =>
        LET p == pre.current_position
        IN  /\ Len(history) = Len(pre.history) + 1
            /\ At(history, p + 1) = Message(last.role, last.text)
            /\ \A i \in 0..p : At(history, i) = At(pre.history, i)
            /\ \A i \in (p + 1)..(Len(pre.history) - 1) :
                  At(history, i + 1) = At(pre.history, i)
            /\ current_position = p + 1

\* add_message has acted with the cursor before the last message
C5_Witness ==
    /\ last.op = "add_message"
    /\ 0 <= pre.current_position
    /\ pre.current_position < Len(pre.history) - 1

\* C6: whenever history is non-empty, 0 <= current_position < len(history)
C6_PositionInBounds ==
    history # <<>> => (0 <= current_position /\ current_position < Len(history))

\* C7: after add_message(role, text), history[current_position] is the
\* message just added
C7_CursorOnAddedMessage ==
    last.op = "add_message" =>
        /\ 0 <= current_position
        /\ current_position < Len(history)
        /\ At(history, current_position) = Message(last.role, last.text)

\* C10: the in-memory frozen_segments are sorted by start, pairwise disjoint,
\* and each satisfies 0 <= start <= end < len(history)
C10_SegmentsWellFormed == WellFormed(frozen_segments, Len(history))

\* two segments loaded, and a failed pipeline call after the load
C10_Witness == Len(frozen_segments) = 2 /\ ProviderFailed

\* C11: in every state of the Timeline, start_mode is 'frozen' if and only
\* if frozen_segments is non-empty and its first segment starts at index 0
C11_StartModeDerived ==
    (start_mode = "frozen") <=>
        (Len(frozen_segments) > 0 /\ frozen_segments[1].start = 0)

---------------------------------------------------------------------------
(* One pipeline call on any Timeline *)

(* _process_message is called on a Timeline with any history and any        *)
(* cursor. Such a Timeline comes from add_message calls, which accept blank *)
(* and empty texts and leave the cursor on the message they added, from     *)
(* failed pipeline calls, each of which moves the cursor one further, past  *)
(* the end of history too, and from load, which puts the cursor at 0 for a  *)
(* file with frozen segments and at -1 for a file with an empty history.    *)

PipelineMessages ==
    {Message("user", PlainText), Message("model", ReplyText),
     Message("model", <<Blank>>), Message("user", <<>>)}

PipelineHistories == UNION {[1..n -> PipelineMessages] : n \in 0..MaxPipeLen}

\* -1 is the cursor of a Timeline loaded from a file with an empty history
PipelineCursors(h) ==
    0..(Len(h) + 1) \cup (IF h = <<>> THEN {-1} ELSE {})

EmptyFile ==
    [exists |-> TRUE, history |-> <<>>, frozenSegments |-> <<>>,
     startMode |-> "interactive"]

InitPipeline ==
    \E h \in PipelineHistories :
        \E position \in PipelineCursors(h) :
            /\ history = h
            /\ current_position = position
            /\ frozen_segments = <<>>
            /\ start_mode = "interactive"
            /\ loaded_filename = (IF position = -1 THEN DialogFile ELSE None)
            /\ disk = (IF position = -1 THEN EmptyFile ELSE NoFile)
            /\ srcFile = FALSE
            /\ origin = Tags(Len(h), IF position = -1 THEN "loaded" ELSE "added")
            /\ saved = NoSnapshot
            /\ last = Op("init", "ok", None, <<>>, <<>>)
            /\ pre = [history |-> h, current_position |-> position,
                      frozen_segments |-> <<>>, start_mode |-> "interactive",
                      loaded_filename |->
                          (IF position = -1 THEN DialogFile ELSE None)]
            /\ steps = MaxSteps - 1
            /\ frozen_loaded = <<>>
            /\ gen = NoCall
            /\ NoManager
            /\ NoProcessor
            /\ NoEnvironment

NextPipeline ==
    \E user_input \in UserInputs, outcome \in ProviderOutcomes :
        ProcessMessage(user_input, outcome)

SpecPipeline == InitPipeline /\ [][NextPipeline]_vars

\* a pipeline call ran and reached generate_content
ProviderCalled == last.op = "process_message" /\ last.calls = 1

\* C19: the conversation _process_message passes to generate_content is the
\* history messages whose text is not empty or whitespace-only, in history
\* order, followed by the new user message, whatever current_position is
C19_ConversationFromHistory ==
    ProviderCalled =>
        LET kept == SelectSeq(pre.history, LAMBDA m : NonBlank(m.text))
            n == Len(kept)
        IN  /\ Len(last.conversation) = n + 1
            /\ \A i \in 1..n :
                  last.conversation[i] =
                      [role |-> kept[i].role, parts |-> <<kept[i].text>>]
            /\ last.conversation[n + 1] =
                   [role |-> "user", parts |-> <<last.text>>]

\* the call started from a history with a blank message before a non-blank
\* one, the cursor before the last message
C19_Witness ==
    /\ ProviderCalled
    /\ Len(pre.history) = 3
    /\ ~NonBlank(pre.history[1].text)
    /\ NonBlank(pre.history[2].text)
    /\ ~NonBlank(pre.history[3].text)
    /\ pre.current_position = 0

\* C20: a call whose provider call succeeds grows history by two messages,
\* the user message followed immediately by a model-role message with the
\* provider's reply, the messages that were there staying in their order,
\* and it returns that reply
C20_SuccessAddsUserAndReply ==
    (ProviderCalled /\ last.outcome = "ok") =>
        LET n == Len(pre.history)
        IN  /\ Len(history) = n + 2
            /\ last.reply = ReplyText
            /\ \E k \in 0..n :
                  history = SubSeq(pre.history, 1, k)
                            \o <<Message("user", last.text),
                                 Message("model", last.reply)>>
                            \o SubSeq(pre.history, k + 1, n)

\* a successful call put its two messages in the middle of history
C20_Witness ==
    /\ ProviderCalled
    /\ last.outcome = "ok"
    /\ Len(pre.history) = 3
    /\ pre.current_position = 0
    /\ history[2] = Message("user", last.text)
    /\ history[3] = Message("model", ReplyText)
    /\ history[5] = pre.history[3]

\* C27: a _process_message call invokes generate_content at most once,
\* whatever the outcome: no call when the input is rejected before the
\* provider step, and exactly one, never a second, when the provider fails
C27_AtMostOneProviderCall ==
    last.op = "process_message" =>
        /\ last.calls <= 1
        /\ last.outcome \in {"EmptyMessage", "TypeError"} => last.calls = 0
        /\ last.outcome \in {"ModelRequestException", "Exception"} =>
               last.calls = 1

\* a provider call failed, on a Timeline that had messages
C27_Witness ==
    /\ last.op = "process_message"
    /\ last.outcome = "ModelRequestException"
    /\ last.calls = 1
    /\ Len(pre.history) = 2

\* C32 as stated: in a successful turn the conversation passed to
\* generate_content is the non-blank messages of history, in history order,
\* as history stands right after the user message was added, wherever the
\* cursor is
C32_ConversationIsHistoryAfterAdd ==
    (ProviderCalled /\ last.outcome = "ok") =>
        last.conversation =
            ConversationOf(HistoryAfterAdd(pre.history, pre.current_position,
                                           Message("user", last.text)))

\* C36: a blank or whitespace-only input returns the error result, makes no
\* provider call, and leaves history and current_position as they were
C36_BlankInputRejected ==
    (last.op = "process_message" /\ ~NonBlank(last.text)) =>
        /\ last.outcome = "EmptyMessage"
        /\ last.reply = <<>>
        /\ last.calls = 0
        /\ history = pre.history
        /\ current_position = pre.current_position

\* a blank input was given on a Timeline with messages, the cursor before
\* the last of them
C36_Witness ==
    /\ last.op = "process_message"
    /\ last.text = <<Blank>>
    /\ Len(pre.history) = 2
    /\ pre.current_position = 0
    /\ history = pre.history

---------------------------------------------------------------------------
(* The file-send directive, and what save writes *)

\* how a _process_message call can leave by an exception rather than by its
\* return: the TypeError of the process_file_input call, and whatever the
\* provider raises that is not a ModelRequestException
RaisedOutcomes == {"TypeError", "Exception"}

\* the last call was given 'file <path>'
FileDirectiveGiven ==
    last.op = "process_message" /\ StartsWith(last.text, FileDirective)

\* the Timeline is as it was before the last operation
TimelineUnchanged ==
    /\ history = pre.history
    /\ current_position = pre.current_position
    /\ frozen_segments = pre.frozen_segments
    /\ start_mode = pre.start_mode

\* C28: the startMode save writes is derived from the segments at save time
\* and from nothing else: 'frozen' exactly when frozen_segments is non-empty
\* and its first segment starts at 0, whatever the in-memory start_mode is;
\* and save changes no field of the Timeline
C28_SavedStartModeDerived ==
    last.op = "save" =>
        /\ disk.startMode = "frozen" <=>
               (Len(frozen_segments) > 0 /\ frozen_segments[1].start = 0)
        /\ disk.startMode \in {"frozen", "interactive"}
        /\ disk.frozenSegments = frozen_segments
        /\ TimelineUnchanged
        /\ loaded_filename = pre.loaded_filename

\* save wrote a start mode that is not the one the Timeline holds
C28_Witness ==
    /\ last.op = "save"
    /\ disk.startMode = "frozen"
    /\ start_mode = "interactive"

\* C21: for 'file <path>' naming a readable, non-empty file and a provider
\* that succeeds, the Timeline gains one user message whose text is the
\* marker 'File sent: <path>' without the file's content, followed by the
\* model reply
C21_FileDirectiveAddsMarker ==
    (FileDirectiveGiven /\ srcFile) =>
        LET n == Len(pre.history)
            path == SubSeq(last.text, 2, Len(last.text))
        IN  /\ last.outcome = "ok"
            /\ Len(history) = n + 2
            /\ \E k \in 0..n :
                  history = SubSeq(pre.history, 1, k)
                            \o <<Message("user", <<FileSentMarker>> \o path),
                                 Message("model", ReplyText)>>
                            \o SubSeq(pre.history, k + 1, n)

\* C22: for 'file <path>' naming a file that does not exist,
\* _process_message returns an error result instead of raising, makes no
\* provider call and leaves the Timeline unchanged
C22_MissingFileReported ==
    (FileDirectiveGiven /\ ~srcFile) =>
        /\ last.outcome \notin RaisedOutcomes
        /\ last.outcome # "ok"
        /\ last.calls = 0
        /\ TimelineUnchanged

---------------------------------------------------------------------------
(* Save and load on their own, over longer dialog files: a file holds the    *)
(* first n of a row of distinct messages, two of them 'File sent: ' markers, *)
(* under every well-formed list of frozen segments                           *)

Words == <<"one", "two", "three", "four", "five", "six", "seven", "eight">>

RowMessage(i) ==
    CASE i = 1 -> Message("user", MarkerText)
      [] i = 4 -> Message("user", <<FileSentMarker, "gone.txt">>)
      [] OTHER -> Message(IF i % 2 = 1 THEN "user" ELSE "model", <<Words[i]>>)

RowFiles ==
    UNION {{[exists |-> TRUE, history |-> [i \in 1..n |-> RowMessage(i)],
             frozenSegments |-> s, startMode |-> DerivedStartMode(s)] :
               s \in SegmentLists(n)} : n \in 0..MaxLoadLen}

InitRoundTrip ==
    /\ history = <<>>
    /\ current_position = 0
    /\ frozen_segments = <<>>
    /\ start_mode = "interactive"
    /\ loaded_filename = None
    /\ disk \in {NoFile} \cup RowFiles
    /\ srcFile \in BOOLEAN
    /\ origin = <<>>
    /\ saved = NoSnapshot
    /\ last = Op("init", "ok", None, <<>>, <<>>)
    /\ pre = Snapshot
    /\ steps = 0
    /\ frozen_loaded = <<>>
    /\ gen = NoCall
    /\ NoManager
    /\ NoProcessor
    /\ NoEnvironment

NextRoundTrip ==
    \/ AddMessage("user", MarkerText)
    \/ AddMessage("model", ReplyText)
    \/ Save
    \/ Load

SpecRoundTrip == InitRoundTrip /\ [][NextRoundTrip]_vars

\* s is the beginning of t
IsPrefix(s, t) == Len(s) <= Len(t) /\ SubSeq(t, 1, Len(s)) = s

\* what load makes of a persisted message: the role is kept; the text is
\* kept unless it starts with 'File sent: ', when the part before the File
\* Content header is kept and the file's content or a not-found note follows
Reloaded(persisted, message) ==
    /\ message.role = persisted.role
    /\ IF StartsWith(persisted.text, FileSentMarker)
       THEN LET base_text == SplitHead(persisted.text, FileContentHeader)
            IN  /\ IsPrefix(base_text, message.text)
                /\ Len(message.text) > Len(base_text)
                /\ message.text[Len(base_text) + 1] \in {FileContentHeader, NotFoundNote}
       ELSE message.text = persisted.text

\* load has read a file that save wrote from a Timeline without frozen segments
RoundTripDone ==
    /\ last.op = "load"
    /\ last.outcome = "ok"
    /\ saved # <<>>
    /\ saved[1].frozen_segments = <<>>

\* C8 as stated: save followed by load keeps the roles and the texts of all
\* messages, in order, and sets current_position to len(history) - 1
C8_TextsPreserved ==
    RoundTripDone =>
        /\ history = saved[1].history
        /\ current_position = Len(history) - 1

\* C8, amended: save followed by load keeps the number, the order and the
\* roles of the messages and the text of every message that does not start
\* with 'File sent: '; the text of a 'File sent: ' message becomes its part
\* before the File Content header followed by the file's content or a
\* not-found note; current_position is len(history) - 1
C8_RoundTrip ==
    RoundTripDone =>
        /\ Len(history) = Len(saved[1].history)
        /\ \A i \in 1..Len(history) : Reloaded(saved[1].history[i], history[i])
        /\ current_position = Len(history) - 1

\* a Timeline of several messages went through save and load
C8_Witness == RoundTripDone /\ Len(saved[1].history) >= 2

\* load has read a file with frozen segments
FrozenLoadDone ==
    /\ last.op = "load"
    /\ last.outcome = "ok"
    /\ disk.frozenSegments # <<>>

\* the indices of the persisted history that lie inside a segment, ascending
InsideSegments(data) ==
    SelectSeq(Range(0, Len(data.history)),
              LAMBDA i : \E k \in 1..Len(data.frozenSegments) :
                            /\ data.frozenSegments[k].start <= i
                            /\ i <= data.frozenSegments[k].end)

\* the number of messages in the segments before the k-th
RECURSIVE LengthBefore(_, _)
LengthBefore(segments, k) ==
    IF k <= 1 THEN 0
    ELSE LengthBefore(segments, k - 1)
             + (segments[k - 1].end - segments[k - 1].start + 1)

\* where the segments lie in the loaded history
SegmentsRemapped ==
    /\ Len(frozen_segments) = Len(disk.frozenSegments)
    /\ \A k \in 1..Len(frozen_segments) :
          LET segment == disk.frozenSegments[k]
              new_start == LengthBefore(disk.frozenSegments, k)
          IN  frozen_segments[k] =
                  [start |-> new_start, end |-> new_start + segment.end - segment.start]
    /\ current_position = 0
    /\ current_position = frozen_segments[1].start

\* the persisted messages a load reads: all of them, or those inside the
\* frozen segments
PersistedRead(data) ==
    IF data.frozenSegments = <<>> THEN data.history
    ELSE LET inside == InsideSegments(data)
         IN  [k \in 1..Len(inside) |-> At(data.history, inside[k])]

\* the file a marker text names is not there
Absent(path) == ~(srcFile /\ path = SentPath)

\* C25: when load reconstructs a persisted message whose text starts with
\* 'File sent: ' and the file it names is absent, load does not raise; the
\* message keeps its role and its marker text 'File sent: <path>', and the
\* not-found note stands where the file content would
C25_MissingFileNote ==
    (last.op = "load" /\ disk.exists) =>
        /\ last.outcome = "ok"
        /\ Len(history) = Len(PersistedRead(disk))
        /\ \A i \in 1..Len(history) :
              LET persisted == PersistedRead(disk)[i]
                  marker_text == SplitHead(persisted.text, FileContentHeader)
                  path == SubSeq(marker_text, 2, Len(marker_text))
              IN  (StartsWith(persisted.text, FileSentMarker) /\ Absent(path)) =>
                      /\ history[i].role = persisted.role
                      /\ history[i].text =
                             marker_text \o <<NotFoundNote>> \o path \o <<Quote>>

\* load read a marker message whose file is absent, next to one whose file
\* is there
C25_Witness ==
    /\ last.op = "load"
    /\ last.outcome = "ok"
    /\ disk.frozenSegments = <<>>
    /\ srcFile
    /\ Len(history) >= 4
    /\ FileContentHeader = history[1].text[3]
    /\ history[4].text = <<FileSentMarker, "gone.txt", NotFoundNote, "gone.txt", Quote>>

\* C35 as stated: a save followed by a load is idempotent after the first
\* round. The Timeline is what the load of a first round made of the file
\* its save wrote; a second round, save of this Timeline and load of what
\* it writes, gives the same texts, frozen_segments and current_position
C35_SecondRoundChangesNothing ==
    (/\ last.op = "load"
     /\ last.outcome = "ok"
     /\ saved # <<>>
     /\ saved[1] = pre) =>
        LET again == LoadResult(SaveData(history, frozen_segments), srcFile,
                                current_position, DialogFile, loaded_filename)
        IN  /\ again.history = history
            /\ again.frozen_segments = frozen_segments
            /\ again.current_position = current_position

\* C9 as stated: the loaded history is exactly the persisted messages inside
\* the segments, in segment order; each segment is remapped to the range it
\* now occupies; current_position is the start of the first segment, 0
C9_FrozenMessagesVerbatim ==
    FrozenLoadDone =>
        LET inside == InsideSegments(disk)
        IN  /\ history = [j \in 1..Len(inside) |-> At(disk.history, inside[j])]
            /\ SegmentsRemapped

\* C9, amended: the loaded history is the persisted messages inside the
\* segments, in segment order, each as load reconstructs it (role kept, text
\* kept unless it starts with 'File sent: ', when the file's content or a
\* not-found note follows the marker line); the segments and
\* current_position are as stated
C9_FrozenLoad ==
    FrozenLoadDone =>
        LET inside == InsideSegments(disk)
        IN  /\ Len(history) = Len(inside)
            /\ \A j \in 1..Len(inside) :
                  Reloaded(At(disk.history, inside[j]), history[j])
            /\ SegmentsRemapped

\* the file with segments [{2,4}] is loaded as 3 messages under segment {0,2}
C9_Witness ==
    /\ FrozenLoadDone
    /\ disk.frozenSegments = <<[start |-> 2, end |-> 4]>>
    /\ frozen_segments = <<[start |-> 0, end |-> 2]>>
    /\ Len(history) = 3

---------------------------------------------------------------------------
(* Reloads: a Timeline that was loaded from a file with frozen segments     *)
(* takes add_message and successful pipeline calls, is saved and loaded     *)
(* again. The file the marker names exists throughout.                      *)

FrozenFiles ==
    {f \in RowFiles : f.frozenSegments # <<>> /\ Len(f.history) <= MaxFileLen + 1}

\* the state right after Timeline().load(f)
InitReload ==
    \E f \in FrozenFiles :
        LET r == LoadResult(f, TRUE, 0, DialogFile, None)
        IN  /\ disk = f
            /\ srcFile = TRUE
            /\ history = r.history
            /\ current_position = r.current_position
            /\ frozen_segments = r.frozen_segments
            /\ start_mode = r.start_mode
            /\ loaded_filename = r.loaded_filename
            /\ origin = Tags(Len(r.history), "loaded")
            /\ saved = NoSnapshot
            /\ last = Op("load", r.outcome, None, <<>>, <<>>)
            /\ pre = [history |-> <<>>, current_position |-> 0,
                      frozen_segments |-> <<>>, start_mode |-> "interactive",
                      loaded_filename |-> None]
            /\ steps = 0
            /\ frozen_loaded = <<r.history>>
            /\ gen = NoCall
            /\ NoManager
            /\ NoProcessor
            /\ NoEnvironment

NextReload ==
    \/ \E m \in AddedMessages : AddMessage(m.role, m.text)
    \/ ProcessMessage(PlainText, "ok")
    \/ Save
    \/ Load

SpecReload == InitReload /\ [][NextReload]_vars

\* s can be had from t by leaving messages out
RECURSIVE IsSubsequence(_, _)
IsSubsequence(s, t) ==
    IF s = <<>> THEN TRUE
    ELSE IF t = <<>> THEN FALSE
    ELSE IF Head(s) = Head(t) THEN IsSubsequence(Tail(s), Tail(t))
    ELSE IsSubsequence(s, Tail(t))

\* a Timeline first loaded from a file with frozen segments was saved, and
\* load has read the saved file right after
ReloadDone ==
    /\ last.op = "load"
    /\ last.outcome = "ok"
    /\ frozen_loaded # <<>>
    /\ saved # <<>>
    /\ saved[1] = pre

\* C12: after add_message and successful pipeline calls, a save and a load,
\* the reloaded history still holds every message that was inside a frozen
\* segment at the first load, verbatim and in the same relative order
C12_FrozenContentSurvives ==
    ReloadDone => IsSubsequence(frozen_loaded[1], history)

---------------------------------------------------------------------------
(* The model providers: generate_content(conversation)                      *)
(* A conversation message is {'role', 'parts': [{'text'}]} with one part, as *)
(* _process_message builds it; it is written [role, text] here.             *)

Providers == {"anthropic", "google-vertex", "groq"}

\* what the service does with the request: it answers, it answers with an
\* HTTP error status, or it cannot be reached
Backends == {"ok", "http_error", "network_error"}

DefaultSystemText == <<"You are a helpful assistant.">>
SystemText == <<"Be brief.">>

\* a caller other than the pipeline may pass a message with an empty text
ConversationMessages ==
    {Message("user", PlainText), Message("model", ReplyText),
     Message("system", SystemText), Message("system", <<>>),
     Message("user", <<>>)}

Conversations == UNION {[1..n -> ConversationMessages] : n \in 0..MaxConv}

Returned(text) ==
    [kind |-> "return", exception |-> None, model_type |-> None, text |-> text]
Raised(exception, model_type) ==
    [kind |-> "raise", exception |-> exception, model_type |-> model_type,
     text |-> <<>>]

RenameModel(role) == IF role = "model" THEN "assistant" ELSE role

SystemTexts(conversation) ==
    LET systems == SelectSeq(conversation, LAMBDA m : m.role = "system")
    IN  [i \in 1..Len(systems) |-> systems[i].text]

\* AnthropicModel.generate_content: the messages of the request, its system
\* field (the last system message, when its text is not empty), the result
AnthropicMessagesWithSystem(conversation) ==
    [i \in 1..Len(conversation) |->
        [role |-> RenameModel(conversation[i].role),
         content |-> conversation[i].text]]
AnthropicMessages(conversation) ==
    LET others == SelectSeq(conversation, LAMBDA m : RenameModel(m.role) # "system")
    IN  [i \in 1..Len(others) |->
            [role |-> RenameModel(others[i].role), content |-> others[i].text]]

AnthropicSystem(conversation) ==
    LET texts == SystemTexts(conversation)
    IN  IF texts # <<>> /\ texts[Len(texts)] # <<>>
        THEN <<texts[Len(texts)]>> ELSE <<>>

AnthropicResult(backend) ==
    CASE backend = "ok" -> Returned(ReplyText)
      [] backend = "http_error" -> Returned(<<"Error: ", "503", ", ", "unavailable">>)
      [] backend = "network_error" -> Raised("requests.ConnectionError", None)

\* VertexAIModel.generate_content: the conversation without its system
\* messages, the system instruction (the first system message), the result
VertexMessages(conversation) ==
    LET others == SelectSeq(conversation, LAMBDA m : m.role # "system")
    IN  [i \in 1..Len(others) |->
            [role |-> others[i].role, content |-> others[i].text]]

VertexSystem(conversation) ==
    LET texts == SystemTexts(conversation)
    IN  IF texts # <<>> THEN <<texts[1]>> ELSE <<>>

VertexResult(backend) ==
    CASE backend = "ok" -> Returned(ReplyText)
      [] backend = "http_error" -> Raised("google.api_core.GoogleAPICallError", None)
      [] backend = "network_error" -> Raised("google.api_core.RetryError", None)

\* GroqModel._convert_conversation_format and generate_content
GroqMessagesNoDefault(conversation) ==
    LET kept == SelectSeq(conversation, LAMBDA m : m.text # <<>>)
    IN  [i \in 1..Len(kept) |->
            [role |-> RenameModel(kept[i].role), content |-> kept[i].text]]
GroqMessages(conversation) ==
    LET kept == SelectSeq(conversation, LAMBDA m : m.text # <<>>)
        converted == [i \in 1..Len(kept) |->
                         [role |-> RenameModel(kept[i].role), content |-> kept[i].text]]
    IN  IF \E i \in 1..Len(converted) : converted[i].role = "system"
        THEN converted
        ELSE <<[role |-> "system", content |-> DefaultSystemText]>> \o converted

GroqResult(backend) ==
    CASE backend = "ok" -> Returned(ReplyText)
      [] OTHER -> Returned(<<"Error generating content: ", backend>>)

\* generate_content keeps nothing from one call to the next (Vertex makes a
\* new GenerativeModel per call): a run of the providers is one call
Call(provider, backend, conversation, messages, system, result) ==
    [provider |-> provider, backend |-> backend, conversation |-> conversation,
     kind |-> result.kind, exception |-> result.exception,
     model_type |-> result.model_type, text |-> result.text,
     messages |-> messages, system |-> system]

AnthropicGenerateContent(conversation, backend) ==
    /\ gen = NoCall
    /\ gen' = Call("anthropic", backend, conversation,
                   AnthropicMessages(conversation), AnthropicSystem(conversation),
                   AnthropicResult(backend))
    /\ UNCHANGED <<timelineVars, routerVars, processorVars,
                   environmentVars>>

VertexGenerateContent(conversation, backend) ==
    /\ gen = NoCall
    /\ gen' = Call("google-vertex", backend, conversation,
                   VertexMessages(conversation), VertexSystem(conversation),
                   VertexResult(backend))
    /\ UNCHANGED <<timelineVars, routerVars, processorVars,
                   environmentVars>>

GroqGenerateContent(conversation, backend) ==
    /\ gen = NoCall
    /\ gen' = Call("groq", backend, conversation,
                   GroqMessages(conversation), <<>>, GroqResult(backend))
    /\ UNCHANGED <<timelineVars, routerVars, processorVars,
                   environmentVars>>

InitProviders ==
    /\ history = <<>>
    /\ current_position = 0
    /\ frozen_segments = <<>>
    /\ start_mode = "interactive"
    /\ loaded_filename = None
    /\ disk = NoFile
    /\ srcFile = FALSE
    /\ origin = <<>>
    /\ saved = NoSnapshot
    /\ last = Op("init", "ok", None, <<>>, <<>>)
    /\ pre = Snapshot
    /\ steps = 0
    /\ frozen_loaded = <<>>
    /\ gen = NoCall
    /\ NoManager
    /\ NoProcessor
    /\ NoEnvironment

NextProviders ==
    \E conversation \in Conversations, backend \in Backends :
        \/ AnthropicGenerateContent(conversation, backend)
        \/ VertexGenerateContent(conversation, backend)
        \/ GroqGenerateContent(conversation, backend)

SpecProviders == InitProviders /\ [][NextProviders]_vars

\* C4: for each provider, a network or API failure during generate_content
\* reaches the caller as ModelRequestException carrying the provider name;
\* it is never returned as reply text and never another exception type
C4_FailureIsModelRequestException ==
    gen.backend \in {"http_error", "network_error"} =>
        /\ gen.kind = "raise"
        /\ gen.exception = "ModelRequestException"
        /\ gen.model_type = gen.provider

\* the messages of the given role, and the others, in order
OfRole(messages, role) == SelectSeq(messages, LAMBDA m : m.role = role)
NotOfRole(messages, role) == SelectSeq(messages, LAMBDA m : m.role # role)

\* the system messages of the input that have a text
SystemsWithText(conversation) ==
    SelectSeq(conversation, LAMBDA m : m.role = "system" /\ m.text # <<>>)

\* C17 as stated: the message list GroqModel sends holds exactly one
\* system-role message, and it is at position 0
C17_ExactlyOneSystemFirst ==
    gen.provider = "groq" =>
        /\ Len(OfRole(gen.messages, "system")) = 1
        /\ gen.messages[1].role = "system"

\* C17, amended: the list GroqModel sends always holds a system-role
\* message. When the input has no system message with a non-empty text it
\* holds exactly one, the default, at position 0, followed by the input's
\* non-empty messages; otherwise it is the input's non-empty messages in
\* their order, the system messages among them where they were, and no
\* default is added
C17_SystemMessageKept ==
    gen.provider = "groq" =>
        LET systems == SystemsWithText(gen.conversation)
            sent_systems == OfRole(gen.messages, "system")
            sent_others == NotOfRole(gen.messages, "system")
            others == SelectSeq(gen.conversation,
                                LAMBDA m : m.role # "system" /\ m.text # <<>>)
        IN  /\ Len(sent_systems) >= 1
            /\ Len(sent_others) = Len(others)
            /\ \A i \in 1..Len(others) :
                  /\ sent_others[i].content = others[i].text
                  /\ sent_others[i].role =
                         (IF others[i].role = "model" THEN "assistant"
                          ELSE others[i].role)
            /\ IF systems = <<>>
               THEN /\ Len(sent_systems) = 1
                    /\ gen.messages[1] =
                           [role |-> "system", content |-> DefaultSystemText]
               ELSE /\ Len(sent_systems) = Len(systems)
                    /\ \A i \in 1..Len(systems) :
                          sent_systems[i].content = systems[i].text
                    /\ Len(gen.messages) =
                           Len(SelectSeq(gen.conversation, LAMBDA m : m.text # <<>>))
                    /\ \A i \in 1..Len(gen.messages) :
                          gen.messages[i].role = "system" <=>
                              SelectSeq(gen.conversation,
                                        LAMBDA m : m.text # <<>>)[i].role = "system"

\* GroqModel was given a conversation with a system message after a user
\* message, and sent it in that place
C17_Witness ==
    /\ gen.provider = "groq"
    /\ Len(gen.conversation) = 2
    /\ gen.conversation[1] = Message("user", PlainText)
    /\ gen.conversation[2] = Message("system", SystemText)
    /\ gen.messages[2].role = "system"

\* C18: the message list the Anthropic and Vertex providers send holds no
\* system-role message and holds every non-system message of the input in
\* its order (for Anthropic with 'model' renamed to 'assistant'); a system
\* text that is sent travels outside the list, and it is the input's system
\* text when the input has exactly one system message with a text
C18_SystemOutsideMessages ==
    gen.provider \in {"anthropic", "google-vertex"} =>
        LET others == NotOfRole(gen.conversation, "system")
            systems == OfRole(gen.conversation, "system")
        IN  /\ \A i \in 1..Len(gen.messages) : gen.messages[i].role # "system"
            /\ Len(gen.messages) = Len(others)
            /\ \A i \in 1..Len(others) :
                  /\ gen.messages[i].content = others[i].text
                  /\ gen.messages[i].role =
                         (IF gen.provider = "anthropic" /\ others[i].role = "model"
                          THEN "assistant" ELSE others[i].role)
            /\ gen.system # <<>> =>
                  /\ Len(gen.system) = 1
                  /\ \E i \in 1..Len(systems) : systems[i].text = gen.system[1]
            /\ (Len(systems) = 1 /\ systems[1].text # <<>>) =>
                  gen.system = <<systems[1].text>>

\* the Anthropic provider was given a system message between a user and a
\* model message
C18_Witness ==
    /\ gen.provider = "anthropic"
    /\ Len(gen.conversation) = 3
    /\ gen.conversation[1].role = "user"
    /\ gen.conversation[2] = Message("system", SystemText)
    /\ gen.conversation[3].role = "model"
    /\ gen.system = <<SystemText>>

---------------------------------------------------------------------------
(* The dialog managers: bck_dialog_manager.py                               *)
(* DialogManager.__new__ makes a BasicDialogManager (one processor per      *)
(* dialog file) or an AgentDialogManager (one processor per agent).         *)

\* the Timeline and the provider call of the other specifications
standaloneVars ==
    <<history, current_position, frozen_segments, start_mode, loaded_filename,
      disk, srcFile, origin, saved, last, pre, frozen_loaded, gen,
      processorVars, environmentVars>>

\* the model names a manager is constructed with or select_model returns
ModelNames == {"anthropic", "groq"}

\* LLMConfigManager.select_model: it returns a model name or raises
SelectOutcomes == ModelNames \cup {"raise"}

\* a provider's constructor: initialize_model ends, or re-raises what failed
Constructions == {"ok", "raise"}
Constructed(construction) == IF construction = "ok" THEN "ok" ELSE "Exception"

\* ModelManager.initialize_model(model_name): GroqModel is made without its
\* model_id argument
initialize_model(name, construction) ==
    CASE name = "anthropic" -> Constructed(construction)
      [] name = "google-vertex" -> Constructed(construction)
      [] name = "groq" -> "TypeError"
      [] OTHER -> "ValueError"

\* LLMConfigManager.get_provider_from_model
get_provider_from_model(name) ==
    CASE name = "anthropic" -> "anthropic"
      [] name = "groq" -> "groq"
      [] OTHER -> None

\* ModelManager.initialize_model_with_id(provider, model_id)
initialize_model_with_id(provider, construction) ==
    IF provider \in Providers THEN Constructed(construction) ELSE "ValueError"

\* the model_id ModelManager.initialize_model reads from the credentials
ConfiguredModelId == "configured"

\* the dialog files, and the content an agent seeds its Timeline with
DialogContent(filename) ==
    IF filename = "one.json"
    THEN SaveData(<<Message("user", PlainText), Message("model", ReplyText)>>, <<>>)
    ELSE SaveData(<<Message("model", ReplyText), Message("user", PlainText)>>,
                  <<[start |-> 1, end |-> 1]>>)

AgentContent(agent) ==
    IF agent = "agent1"
    THEN SaveData(<<Message("system", SystemText)>>, <<>>)
    ELSE SaveData(<<Message("system", SystemText), Message("user", PlainText),
                    Message("model", ReplyText)>>, <<>>)

\* Timeline() followed by load
LoadedTimeline(data, filename) ==
    LET r == LoadResult(data, FALSE, 0, filename, None)
    IN  [history |-> r.history, current_position |-> r.current_position,
         frozen_segments |-> r.frozen_segments, start_mode |-> r.start_mode,
         loaded_filename |-> r.loaded_filename]

\* CommandProcessor(timeline, model)
Processor(timeline, provider, model_id) ==
    [timeline |-> timeline, model |-> [provider |-> provider, model_id |-> model_id]]

EmptyMessageError == <<"Error: Empty message not processed.">>
RequestError == <<"Error with ", "model: ">>

\* CommandProcessor.process_single_message on a processor's Timeline: the
\* Timeline afterwards, what is raised, what is returned (result) and of
\* which type (returns: 'str', 'None', or 'raised' when the call does not
\* return), the provider calls made. The provider returns a text (outcome
\* 'ok'), returns the empty string ('empty'), or raises. The method returns
\* 'model_response if model_response else error_message': for an empty
\* reply that is the error message of a call without error, None
process_single_message(t, user_input, outcome) ==
    IF StartsWith(user_input, FileDirective)
    THEN [timeline |-> t, raised |-> "TypeError", result |-> <<>>,
          returns |-> "raised", calls |-> 0]
    ELSE IF ~Constructs(user_input)
    THEN [timeline |-> t, raised |-> None, result |-> EmptyMessageError,
          returns |-> "str", calls |-> 0]
    ELSE LET at_user == InsertIndex(t.current_position)
             with_user == HistoryAfterAdd(t.history, t.current_position,
                                          Message("user", user_input))
         IN  CASE outcome = "ok" ->
                    [timeline |->
                        [t EXCEPT !.history = HistoryAfterAdd(with_user, at_user,
                                                  Message("model", ReplyText)),
                                  !.current_position = InsertIndex(at_user)],
                     raised |-> None, result |-> ReplyText, returns |-> "str",
                     calls |-> 1]
               [] outcome = "empty" ->
                    [timeline |->
                        [t EXCEPT !.history = HistoryAfterAdd(with_user, at_user,
                                                  Message("model", <<>>)),
                                  !.current_position = InsertIndex(at_user)],
                     raised |-> None, result |-> <<>>, returns |-> "None",
                     calls |-> 1]
               [] outcome = "ModelRequestException" ->
                    [timeline |->
                        [t EXCEPT !.history = RollBack(with_user),
                                  !.current_position = at_user],
                     raised |-> None, result |-> RequestError, returns |-> "str",
                     calls |-> 1]
               [] OTHER ->
                    [timeline |->
                        [t EXCEPT !.history = with_user,
                                  !.current_position = at_user],
                     raised |-> outcome, result |-> <<>>, returns |-> "raised",
                     calls |-> 1]

\* filename in self.dialogs, agent in self.processors
CachedNever(cache, identity) == FALSE
Cached(cache, identity) == cache[identity] # 0

\* prepare_agent: 'if not self.model_name'
NeedsSelectionAlways(name) == TRUE
NeedsSelection(name) == name = None

\* the error AgentDialogManager.message raises for an unprepared agent
NotPreparedErrorOfBackup == "ValueError"
NotPreparedError == "AgentNotPreparedError"

RouterInputs == {PlainText, <<Blank>>, <<FileDirective>> \o SentPath}
RouterOutcomes == {"ok", "empty", "ModelRequestException", "Exception"}

\* how a manager's message ends once process_single_message has run: what
\* that call raised, or the TypeError of len(result) for a result of None
MessageOutcome(r) ==
    IF r.raised # None THEN r.raised
    ELSE IF r.returns = "None" THEN "TypeError"
    ELSE "ok"

\* a manager operation that leaves the manager as it is
Rejected(op, identity, outcome, cached, selected) ==
    /\ router_last' = RouterOp(op, identity, outcome, 0, cached, selected,
                               router_last.selects, 0, router_last.given)
    /\ UNCHANGED <<dialogs, active_dialog, processors, active_agent, model_name,
                   heap>>

\* BasicDialogManager.load_dialog(filename)
LoadDialog(filename, selected, construction) ==
    /\ manager = "BasicDialogManager"
    /\ Step
    /\ UNCHANGED <<standaloneVars, manager, on_disk, processors, active_agent>>
    /\ IF Cached(dialogs, filename)
       THEN /\ active_dialog' = filename
            /\ router_last' = RouterOp("load_dialog", filename, "ok", dialogs[filename],
                                       TRUE, FALSE, router_last.selects, 0,
                                       router_last.given)
            /\ UNCHANGED <<dialogs, model_name, heap>>
       ELSE LET asked == model_name = None
                name == IF asked THEN selected ELSE model_name
                selects == router_last.selects + (IF asked THEN 1 ELSE 0)
                made == initialize_model(name, construction)
            IN  IF asked /\ selected = "raise"
                THEN /\ router_last' = RouterOp("load_dialog", filename, "Exception",
                                                0, FALSE, TRUE, router_last.selects,
                                                0, router_last.given)
                     /\ UNCHANGED <<dialogs, active_dialog, model_name, heap>>
                ELSE /\ model_name' = name
                     /\ IF made # "ok" \/ ~on_disk[filename]
                        THEN /\ router_last' =
                                   RouterOp("load_dialog", filename,
                                            IF made # "ok" THEN made
                                            ELSE "FileNotFoundError",
                                            0, FALSE, asked, selects, 0,
                                            router_last.given)
                             /\ UNCHANGED <<dialogs, active_dialog, heap>>
                        ELSE /\ heap' = Append(heap,
                                    Processor(LoadedTimeline(DialogContent(filename),
                                                             filename),
                                              name, ConfiguredModelId))
                             /\ dialogs' = [dialogs EXCEPT ![filename] = Len(heap) + 1]
                             /\ active_dialog' = filename
                             /\ router_last' =
                                   RouterOp("load_dialog", filename, "ok",
                                            Len(heap) + 1, FALSE, asked, selects, 0,
                                            router_last.given)

\* BasicDialogManager.message(processor, user_input); processor 0 is a
\* CommandProcessor this manager did not make
BasicMessage(processor, user_input, outcome) ==
    /\ manager = "BasicDialogManager"
    /\ Step
    /\ UNCHANGED <<standaloneVars, manager, on_disk, processors, active_agent,
                   dialogs, model_name>>
    /\ IF processor = 0
       THEN /\ active_dialog' = None
            /\ router_last' = RouterOp("message", None, "ValueError", 0, FALSE,
                                       FALSE, router_last.selects, 0,
                                       router_last.given)
            /\ UNCHANGED heap
       ELSE LET filename == CHOOSE f \in Filenames : dialogs[f] = processor
                r == process_single_message(heap[processor].timeline, user_input,
                                            outcome)
            IN  /\ active_dialog' = filename
                /\ heap' = [heap EXCEPT ![processor].timeline = r.timeline]
                /\ router_last' = [RouterOp("message", filename, MessageOutcome(r),
                                            processor, TRUE, FALSE,
                                            router_last.selects, r.calls,
                                            router_last.given)
                                       EXCEPT !.result = r.returns]

\* a dialog file appears under dialog_save_path
CreateFile(filename) ==
    /\ manager = "BasicDialogManager"
    /\ ~on_disk[filename]
    /\ Step
    /\ on_disk' = [on_disk EXCEPT ![filename] = TRUE]
    /\ router_last' = RouterOp("create_file", filename, "ok", 0,
                               Cached(dialogs, filename), FALSE,
                               router_last.selects, 0, router_last.given)
    /\ UNCHANGED <<standaloneVars, manager, dialogs, active_dialog, processors,
                   active_agent, model_name, heap>>

\* AgentDialogManager.prepare_agent(agent)
PrepareAgent(agent, selected, construction) ==
    /\ manager = "AgentDialogManager"
    /\ Step
    /\ UNCHANGED <<standaloneVars, manager, on_disk, dialogs, active_dialog>>
    /\ IF Cached(processors, agent)
       THEN /\ active_agent' = agent
            /\ router_last' = RouterOp("prepare_agent", agent, "ok", processors[agent],
                                       TRUE, FALSE, router_last.selects, 0,
                                       router_last.given)
            /\ UNCHANGED <<processors, model_name, heap>>
       ELSE LET asked == NeedsSelection(model_name)
                name == IF asked THEN selected ELSE model_name
                selects == router_last.selects + (IF asked THEN 1 ELSE 0)
                provider == get_provider_from_model(name)
                made == initialize_model_with_id(provider, construction)
            IN  IF asked /\ selected = "raise"
                THEN /\ router_last' =
                           RouterOp("prepare_agent", agent, "ModelConfigurationError",
                                    0, FALSE, TRUE, router_last.selects, 0,
                                    router_last.given)
                     /\ UNCHANGED <<processors, active_agent, model_name, heap>>
                ELSE /\ model_name' = name
                     /\ IF made # "ok"
                        THEN /\ router_last' =
                                   RouterOp("prepare_agent", agent, made, 0, FALSE,
                                            asked, selects, 0, router_last.given)
                             /\ UNCHANGED <<processors, active_agent, heap>>
                        ELSE /\ heap' = Append(heap,
                                    Processor(LoadedTimeline(AgentContent(agent), agent),
                                              provider, name))
                             /\ processors' = [processors EXCEPT ![agent] = Len(heap) + 1]
                             /\ active_agent' = agent
                             /\ router_last' =
                                   RouterOp("prepare_agent", agent, "ok",
                                            Len(heap) + 1, FALSE, asked, selects, 0,
                                            router_last.given)

\* AgentDialogManager.message(agent, user_input)
AgentMessage(agent, user_input, outcome) ==
    /\ manager = "AgentDialogManager"
    /\ Step
    /\ UNCHANGED <<standaloneVars, manager, on_disk, dialogs, active_dialog,
                   processors, model_name>>
    /\ IF ~Cached(processors, agent)
       THEN /\ router_last' = RouterOp("agent_message", agent, NotPreparedError, 0,
                                       FALSE, FALSE, router_last.selects, 0,
                                       router_last.given)
            /\ UNCHANGED <<active_agent, heap>>
       ELSE LET processor == processors[agent]
                r == process_single_message(heap[processor].timeline, user_input,
                                            outcome)
            IN  /\ active_agent' = agent
                /\ heap' = [heap EXCEPT ![processor].timeline = r.timeline]
                /\ router_last' = [RouterOp("agent_message", agent, MessageOutcome(r),
                                            processor, TRUE, FALSE,
                                            router_last.selects, r.calls,
                                            router_last.given)
                                       EXCEPT !.result = r.returns]

\* DialogManager.__new__ and __init__: one of the two managers, constructed
\* with a model name or without
InitRouter ==
    /\ history = <<>>
    /\ current_position = 0
    /\ frozen_segments = <<>>
    /\ start_mode = "interactive"
    /\ loaded_filename = None
    /\ disk = NoFile
    /\ srcFile = FALSE
    /\ origin = <<>>
    /\ saved = NoSnapshot
    /\ last = Op("init", "ok", None, <<>>, <<>>)
    /\ pre = Snapshot
    /\ steps = 0
    /\ frozen_loaded = <<>>
    /\ gen = NoCall
    /\ manager \in {"BasicDialogManager", "AgentDialogManager"}
    /\ dialogs = [f \in Filenames |-> 0]
    /\ active_dialog = None
    /\ processors = [a \in Agents |-> 0]
    /\ active_agent = None
    /\ model_name \in {None} \cup ModelNames
    /\ heap = <<>>
    /\ on_disk \in IF manager = "BasicDialogManager"
                   THEN [Filenames -> BOOLEAN]
                   ELSE {[f \in Filenames |-> FALSE]}
    /\ router_last = RouterOp("init", None, "ok", 0, FALSE, FALSE, 0, 0, model_name)
    /\ NoProcessor
    /\ NoEnvironment

NextRouter ==
    \/ \E filename \in Filenames, selected \in SelectOutcomes,
          construction \in Constructions :
          LoadDialog(filename, selected, construction)
    \/ \E processor \in 0..Len(heap), user_input \in RouterInputs,
          outcome \in RouterOutcomes :
          BasicMessage(processor, user_input, outcome)
    \/ \E filename \in Filenames : CreateFile(filename)
    \/ \E agent \in Agents, selected \in SelectOutcomes,
          construction \in Constructions :
          PrepareAgent(agent, selected, construction)
    \/ \E agent \in Agents, user_input \in RouterInputs,
          outcome \in RouterOutcomes :
          AgentMessage(agent, user_input, outcome)

SpecRouter == InitRouter /\ [][NextRouter]_vars

---------------------------------------------------------------------------
(* Properties of the dialog managers *)

\* C13: for both managers, once an identity has a cache entry the entry is
\* never removed or replaced, every later prepare (load_dialog,
\* prepare_agent) for that identity returns that same processor, and the
\* processor's Timeline is as the earlier message calls left it
C13_OneProcessorPerIdentity ==
    [][/\ \A f \in Filenames :
             dialogs[f] # 0 =>
                 /\ dialogs'[f] = dialogs[f]
                 /\ (router_last'.op = "load_dialog" /\ router_last'.identity = f) =>
                        /\ router_last'.outcome = "ok"
                        /\ router_last'.returned = dialogs[f]
                        /\ heap'[dialogs[f]] = heap[dialogs[f]]
       /\ \A a \in Agents :
             processors[a] # 0 =>
                 /\ processors'[a] = processors[a]
                 /\ (router_last'.op = "prepare_agent" /\ router_last'.identity = a) =>
                        /\ router_last'.outcome = "ok"
                        /\ router_last'.returned = processors[a]
                        /\ heap'[processors[a]] = heap[processors[a]]]_vars

\* a dialog was loaded, took a message, and load_dialog was called again for
\* it: the processor returned holds the two messages of that turn
C13_Witness ==
    /\ router_last.op = "load_dialog"
    /\ router_last.cached_before
    /\ router_last.returned = dialogs[router_last.identity]
    /\ Len(heap[router_last.returned].timeline.history) =
           Len(LoadedTimeline(DialogContent(router_last.identity),
                              router_last.identity).history) + 2

\* an agent without an entry in processors was sent a message
UnpreparedMessage ==
    router_last.op = "agent_message" /\ ~router_last.cached_before

\* C14: AgentDialogManager.message for an agent that has no entry in
\* processors raises AgentNotPreparedError, calls no provider and leaves
\* processors (and every processor) as it was
C14_UnpreparedAgentRejected ==
    UnpreparedMessage =>
        /\ router_last.outcome = "AgentNotPreparedError"
        /\ router_last.calls = 0
        /\ processors = router_last.before.processors
        /\ heap = router_last.before.heap

\* the message went to an unprepared agent while the other one is prepared
C14_Witness ==
    /\ UnpreparedMessage
    /\ \E a \in Agents : processors[a] # 0

\* C15: in an AgentDialogManager constructed without a model name,
\* select_model succeeds at most once and is not called again afterwards,
\* and every agent prepared after that gets a provider built from that name
C15_ModelSelectedOnce ==
    (manager = "AgentDialogManager" /\ router_last.given = None) =>
        /\ router_last.selects <= 1
        /\ (router_last.op = "prepare_agent" /\ router_last.before.model_name # None) =>
              /\ ~router_last.selected
              /\ model_name = router_last.before.model_name
              /\ router_last.returned # 0 =>
                    heap[router_last.returned].model.model_id =
                        router_last.before.model_name

\* the second agent was prepared with the model selected for the first
C15_Witness ==
    /\ manager = "AgentDialogManager"
    /\ router_last.given = None
    /\ router_last.op = "prepare_agent"
    /\ ~router_last.cached_before
    /\ router_last.outcome = "ok"
    /\ router_last.selects = 1
    /\ ~router_last.selected
    /\ \A a \in Agents : processors[a] # 0

\* C16: load_dialog for a filename without an entry whose file does not
\* exist fails with FileNotFoundError and leaves dialogs and active_dialog
\* unchanged; once the file exists, load_dialog creates the entry
C16_MissingFileNotFound ==
    (router_last.op = "load_dialog" /\ ~router_last.cached_before) =>
        IF ~on_disk[router_last.identity]
        THEN /\ router_last.outcome = "FileNotFoundError"
             /\ dialogs = router_last.before.dialogs
             /\ active_dialog = router_last.before.active_dialog
        ELSE /\ router_last.outcome = "ok"
             /\ dialogs[router_last.identity] # 0

\* C30: process_single_message returns a string, the model's reply or an
\* error message, for every input and every provider outcome, a provider
\* that returns an empty reply included
C30_AlwaysReturnsString ==
    router_last.result # "none" => router_last.result = "str"

---------------------------------------------------------------------------
(* Scanning the dialog directory *)

(* list_all_dialogs walks a directory tree. A file is told by its relative  *)
(* path, here its place in the walk; it ends in '.json' or not, and its     *)
(* content is a session as save writes it, a session whose metadata has no  *)
(* name, a JSON object without metadata, a JSON document whose metadata is  *)
(* null, or text that is not JSON.                                          *)

MaxDirLen == 3

FileContents == {"session", "unnamed", "no_metadata", "null_metadata", "unparsable"}

DirectoryFiles == [json : BOOLEAN, content : FileContents]

Directories == UNION {[1..n -> DirectoryFiles] : n \in 0..MaxDirLen}

\* json.load and data['metadata'].get('name', ...) go through
Listable(file) == file.content \in {"session", "unnamed"}

\* the body of the loop for one file: the entry it appends, or nothing when
\* the name does not end in '.json' or the try block raises
DialogEntryUnguarded(file, relative_path) ==
    IF ~file.json THEN <<>>
    ELSE <<[name |-> IF file.content = "session" THEN "Chat" ELSE "Unnamed Dialog",
            path |-> relative_path]>>
DialogEntry(file, relative_path) ==
    IF ~file.json THEN <<>>
    ELSE IF ~Listable(file) THEN <<>>
    ELSE <<[name |-> IF file.content = "session" THEN "Chat" ELSE "Unnamed Dialog",
            path |-> relative_path]>>

\* CommandProcessor.list_all_dialogs(root_path), over the first n files
RECURSIVE list_all_dialogs(_, _)
list_all_dialogs(files, n) ==
    IF n = 0 THEN <<>>
    ELSE list_all_dialogs(files, n - 1) \o DialogEntry(files[n], n)

ListAllDialogs ==
    /\ dialog_names = <<>>
    /\ dialog_names' = <<list_all_dialogs(directory, Len(directory))>>
    /\ UNCHANGED <<timelineVars, gen, routerVars, processorVars, directory,
                   credentials, instance, twin, chat>>

InitScan ==
    /\ history = <<>>
    /\ current_position = 0
    /\ frozen_segments = <<>>
    /\ start_mode = "interactive"
    /\ loaded_filename = None
    /\ disk = NoFile
    /\ srcFile = FALSE
    /\ origin = <<>>
    /\ saved = NoSnapshot
    /\ last = Op("init", "ok", None, <<>>, <<>>)
    /\ pre = Snapshot
    /\ steps = 0
    /\ frozen_loaded = <<>>
    /\ gen = NoCall
    /\ NoManager
    /\ NoProcessor
    /\ directory \in Directories
    /\ dialog_names = <<>>
    /\ credentials = [f \in CredentialFields |-> "absent"]
    /\ instance = NoInstance
    /\ NoSession

NextScan == ListAllDialogs

SpecScan == InitScan /\ [][NextScan]_vars

\* C24: list_all_dialogs returns one entry per '.json' file that parses and
\* has a metadata object, in the order of the walk, and none for a file that
\* does not parse or lacks metadata; a malformed file does not end the scan
C24_OneEntryPerReadableFile ==
    dialog_names # <<>> =>
        LET names == dialog_names[1]
            good == {i \in 1..Len(directory) :
                        /\ directory[i].json
                        /\ directory[i].content \in {"session", "unnamed"}}
        IN  /\ Len(names) = Cardinality(good)
            /\ \A i \in good :
                  Cardinality({k \in 1..Len(names) : names[k].path = i}) = 1
            /\ \A k \in 1..Len(names) :
                  /\ names[k].path \in good
                  /\ names[k].name =
                         (IF directory[names[k].path].content = "session"
                          THEN "Chat" ELSE "Unnamed Dialog")
            /\ \A k \in 1..(Len(names) - 1) : names[k].path < names[k + 1].path

\* a corrupted file was met before a well-formed one, and one name came back
C24_Witness ==
    /\ dialog_names # <<>>
    /\ Len(directory) = 2
    /\ directory[1] = [json |-> TRUE, content |-> "unparsable"]
    /\ directory[2] = [json |-> TRUE, content |-> "session"]
    /\ Len(dialog_names[1]) = 1

---------------------------------------------------------------------------
(* Constructing a provider *)

(* ConfigurableModel and its three subclasses. The stored configuration    *)
(* holds each credential field with a value ('set'), with an empty value   *)
(* ('empty') or not at all ('absent'). LLMConfigManager is taken as the    *)
(* store it is used as: get_credentials returns the stored fields, those   *)
(* kept in the keyring with the value that was put there, and its models   *)
(* table names the fields configure_model asks for.                        *)

RequiredFields(provider) ==
    CASE provider = "anthropic" -> {"api_key", "api_url", "anthropic_version"}
      [] provider = "google-vertex" -> {"project_id", "location", "service_account"}
      [] provider = "groq" -> {"api_key"}

\* the fields of input_type 'password'
PasswordFields == {"api_key"}

\* what the user does at a prompt: types a value, or types nothing where the
\* field has no default, or types nothing where it has one
Answers == {"value", "empty", "default"}

\* configure_model, for one field it asks for: what the store holds afterwards
Configured(field, answer) ==
    IF answer = "value" THEN "set"
    ELSE IF answer = "default" /\ field \notin PasswordFields THEN "set"
    ELSE "empty"

\* <Provider>Model(model_id): __init__ and initialize_model
Construct(provider, answers) ==
    /\ instance.state = "none"
    /\ LET required == RequiredFields(provider)
           missing_or_empty_fields == {f \in required : credentials[f] # "set"}
           prompted == IF missing_or_empty_fields = {} THEN {}
                       ELSE {f \in required : credentials[f] # "set"}
           config == [f \in CredentialFields |->
                         IF f \in prompted THEN Configured(f, answers[f])
                         ELSE credentials[f]]
       IN  /\ credentials' = config
           /\ instance' =
                  [provider |-> provider,
                   state |-> IF \E f \in required : config[f] = "absent"
                             THEN "KeyError" ELSE "built",
                   fields |-> [f \in CredentialFields |->
                                  IF f \in required THEN config[f] ELSE "absent"],
                   prompted |-> prompted]
    /\ UNCHANGED <<timelineVars, gen, routerVars, processorVars, directory,
                   dialog_names, twin, chat>>

InitConstruct ==
    /\ history = <<>>
    /\ current_position = 0
    /\ frozen_segments = <<>>
    /\ start_mode = "interactive"
    /\ loaded_filename = None
    /\ disk = NoFile
    /\ srcFile = FALSE
    /\ origin = <<>>
    /\ saved = NoSnapshot
    /\ last = Op("init", "ok", None, <<>>, <<>>)
    /\ pre = Snapshot
    /\ steps = 0
    /\ frozen_loaded = <<>>
    /\ gen = NoCall
    /\ NoManager
    /\ NoProcessor
    /\ directory = <<>>
    /\ dialog_names = <<>>
    /\ credentials \in [CredentialFields -> {"absent", "empty", "set"}]
    /\ instance = NoInstance
    /\ NoSession

NextConstruct ==
    \E provider \in Providers :
        \E answers \in [RequiredFields(provider) -> Answers] :
            Construct(provider, answers)

SpecConstruct == InitConstruct /\ [][NextConstruct]_vars

\* C26: a provider instance whose construction completed holds every
\* credential field its variant requires, none of them empty
C26_CredentialsValidated ==
    instance.state = "built" =>
        \A f \in RequiredFields(instance.provider) : instance.fields[f] = "set"

---------------------------------------------------------------------------
(* The command line: CommandProcessor.process_command *)

(* main() makes a Timeline, a provider and a CommandProcessor, and hands    *)
(* each line the user types to process_command. A call looks the command    *)
(* up, runs its handler inside try/except Exception and returns the         *)
(* Timeline's current position. The 'interactive' handler reads inputs      *)
(* until 'cmd'; the call stands in that phase between two inputs.           *)

\* 'head' stands for the handlers that only print; 'bogus' is no command
PrintingCommands == {"head", "bogus"}

\* switch_model: the provider the processor holds after the handler, given
\* how ModelManager.initialize_model ended
SwitchedModelAlways(current, choice, result) ==
    ModelObject(choice, current.made + 1)
SwitchedModel(current, choice, result) ==
    IF result = "ok" THEN ModelObject(choice, current.made + 1) ELSE current

\* the end of a process_command call
CommandDone(name, outcome, returned) ==
    command' = CommandOp(name, outcome, returned, "idle", Snapshot, model)

CommandStep == command.phase = "idle" /\ Step

commandFrame == <<disk, srcFile, saved, last, pre, frozen_loaded, gen, routerVars,
                  environmentVars>>

\* process_command(command) for a command that is not known or only prints
PrintingCommand(name) ==
    /\ CommandStep
    /\ CommandDone(name, IF name = "bogus" THEN "invalid" ELSE "ok",
                   current_position)
    /\ UNCHANGED <<history, current_position, frozen_segments, start_mode,
                   loaded_filename, origin, model, commandFrame>>

\* process_command('switch-model'): the user picks one of the available models
SwitchModelCommand(choice, construction) ==
    /\ CommandStep
    /\ LET result == initialize_model(choice, construction)
       IN  /\ model' = SwitchedModel(model, choice, result)
           /\ CommandDone("switch-model", IF result = "ok" THEN "ok" ELSE "caught",
                          current_position)
    /\ UNCHANGED <<history, current_position, frozen_segments, start_mode,
                   loaded_filename, origin, commandFrame>>

\* process_command('load-timeline'): Timeline.load of the dialog file
LoadTimelineCommand ==
    /\ CommandStep
    /\ UNCHANGED <<model, commandFrame>>
    /\ IF ~disk.exists
       THEN /\ CommandDone("load-timeline", "caught", current_position)
            /\ UNCHANGED <<history, current_position, frozen_segments, start_mode,
                           loaded_filename, origin>>
       ELSE LET r == LoadResult(disk, srcFile, current_position, DialogFile,
                                loaded_filename)
            IN  /\ history' = r.history
                /\ origin' = Tags(Len(r.history), "loaded")
                /\ frozen_segments' = r.frozen_segments
                /\ start_mode' = r.start_mode
                /\ current_position' = r.current_position
                /\ loaded_filename' = r.loaded_filename
                /\ CommandDone("load-timeline",
                               IF r.outcome = "ok" THEN "ok" ELSE "caught",
                               r.current_position)

\* process_command('interactive') up to the first prompt
EnterInteractive ==
    /\ CommandStep
    /\ command' = CommandOp("interactive", "running", current_position,
                            "interactive", Snapshot, model)
    /\ UNCHANGED <<history, current_position, frozen_segments, start_mode,
                   loaded_filename, origin, model, commandFrame>>

\* one input of the interactive phase that is not 'cmd': _process_message
\* runs; what it raises ends the handler and is caught by process_command
InteractiveInput(user_input, outcome) ==
    /\ command.phase = "interactive"
    /\ Step
    /\ LET r == process_single_message(Snapshot, user_input, outcome)
       IN  /\ history' = r.timeline.history
           /\ current_position' = r.timeline.current_position
           /\ origin' = Tags(Len(r.timeline.history), "interactive")
           /\ command' = IF r.raised = None THEN command
                         ELSE [command EXCEPT !.outcome = "caught",
                                              !.returned = r.timeline.current_position,
                                              !.phase = "idle"]
    /\ UNCHANGED <<frozen_segments, start_mode, loaded_filename, model,
                   commandFrame>>

\* the input 'cmd': the handler returns the current position
LeaveInteractive ==
    /\ command.phase = "interactive"
    /\ Step
    /\ command' = [command EXCEPT !.outcome = "ok", !.returned = current_position,
                                  !.phase = "idle"]
    /\ UNCHANGED <<history, current_position, frozen_segments, start_mode,
                   loaded_filename, origin, model, commandFrame>>

\* main(): a new Timeline and the provider select_model named
InitCommands ==
    /\ history = <<>>
    /\ current_position = 0
    /\ frozen_segments = <<>>
    /\ start_mode = "interactive"
    /\ loaded_filename = None
    /\ disk \in {NoFile} \cup EnvFiles
    /\ srcFile \in BOOLEAN
    /\ origin = <<>>
    /\ saved = NoSnapshot
    /\ last = Op("init", "ok", None, <<>>, <<>>)
    /\ pre = Snapshot
    /\ steps = 0
    /\ frozen_loaded = <<>>
    /\ gen = NoCall
    /\ NoManager
    /\ model = ModelObject("anthropic", 1)
    /\ command = CommandOp(None, "ok", 0, "idle", Snapshot, model)
    /\ NoEnvironment

NextCommands ==
    \/ \E name \in PrintingCommands : PrintingCommand(name)
    \/ \E choice \in ModelNames, construction \in Constructions :
          SwitchModelCommand(choice, construction)
    \/ LoadTimelineCommand
    \/ EnterInteractive
    \/ \E user_input \in RouterInputs, outcome \in RouterOutcomes :
          InteractiveInput(user_input, outcome)
    \/ LeaveInteractive

SpecCommands == InitCommands /\ [][NextCommands]_vars

\* the Timeline is as it was when the last process_command call started
TimelineAsBeforeCommand ==
    /\ history = command.before.history
    /\ current_position = command.before.current_position
    /\ frozen_segments = command.before.frozen_segments
    /\ start_mode = command.before.start_mode

\* C23: the switch-model command, whether it succeeds or fails, leaves the
\* processor's Timeline unchanged; on success the processor holds a new
\* provider instance, on failure the one it held
C23_SwitchModelKeepsTimeline ==
    command.command = "switch-model" =>
        /\ TimelineAsBeforeCommand
        /\ loaded_filename = command.before.loaded_filename
        /\ command.outcome = "ok" =>
               /\ model # command.model_before
               /\ model.made = command.model_before.made + 1
        /\ command.outcome # "ok" => model = command.model_before

\* the model was switched on a Timeline that holds messages
C23_Witness ==
    /\ command.command = "switch-model"
    /\ command.outcome = "ok"
    /\ Len(history) >= 2
    /\ model.made = 2

\* C29: process_command does not raise for an unrecognised command or for a
\* handler that raises an Exception: it leaves the Timeline (history,
\* current_position, frozen_segments) unchanged and returns the current
\* position
C29_FailedCommandKeepsTimeline ==
    (command.phase = "idle" /\ command.outcome \in {"invalid", "caught"}) =>
        /\ history = command.before.history
        /\ current_position = command.before.current_position
        /\ frozen_segments = command.before.frozen_segments
        /\ command.returned = current_position

\* C37 as stated: a message call the router rejects (a processor the
\* manager is not associated with, an agent that is not prepared) leaves the
\* caches and the active identity of the manager as they were
C37_RejectedMessageChangesNothing ==
    (/\ router_last.op \in {"message", "agent_message"}
     /\ router_last.outcome \in {"ValueError", NotPreparedError}) =>
        ManagerState = router_last.before

---------------------------------------------------------------------------
(* Two Timelines side by side: what load makes of a Timeline whatever it   *)
(* held, and of a Timeline next to one that never loaded                    *)

\* Timeline.load(filename) and Timeline.add_message(role, text) on the
\* Timeline t: the Timeline after the operation o, and how it ended
TimelineAfterAppending(t, o, data, exists) ==
    CASE o.op = "load" ->
            IF ~data.exists THEN [t EXCEPT !.outcome = "FileNotFoundError"]
            ELSE LET r == LoadResult(data, exists, t.current_position, DialogFile,
                                     t.loaded_filename)
                 IN  [r EXCEPT !.history = t.history \o r.history]
      [] o.op = "add_message" ->
            [t EXCEPT !.outcome = "ok",
                      !.history = HistoryAfterAdd(t.history, t.current_position,
                                                  Message(o.role, o.text)),
                      !.current_position = InsertIndex(t.current_position)]
      [] OTHER -> t
TimelineAfter(t, o, data, exists) ==
    CASE o.op = "load" ->
            IF ~data.exists THEN [t EXCEPT !.outcome = "FileNotFoundError"]
            ELSE LoadResult(data, exists, t.current_position, DialogFile,
                            t.loaded_filename)
      [] o.op = "add_message" ->
            [t EXCEPT !.outcome = "ok",
                      !.history = HistoryAfterAdd(t.history, t.current_position,
                                                  Message(o.role, o.text)),
                      !.current_position = InsertIndex(t.current_position)]
      [] OTHER -> t

\* one step of the pair: an operation a on the first Timeline and b on the
\* second, each of them nothing, load, or add_message, and at least one of
\* them an operation
TwinStep ==
    \E a, b \in {[op |-> "none", role |-> None, text |-> <<>>],
                 [op |-> "load", role |-> None, text |-> <<>>],
                 [op |-> "add_message", role |-> "user", text |-> PlainText],
                 [op |-> "add_message", role |-> "model", text |-> ReplyText]} :
        /\ Step
        /\ a.op # "none" \/ b.op # "none"
        /\ LET t == TimelineAfter(Snapshot @@ [outcome |-> last.outcome], a,
                                  disk, srcFile)
           IN  /\ history' = t.history
               /\ current_position' = t.current_position
               /\ frozen_segments' = t.frozen_segments
               /\ start_mode' = t.start_mode
               /\ loaded_filename' = t.loaded_filename
               /\ origin' = CASE a.op = "load" /\ disk.exists ->
                                     Tags(Len(t.history), "loaded")
                              [] a.op = "add_message" ->
                                     ListInsert(origin,
                                                InsertIndex(current_position),
                                                "added")
                              [] OTHER -> origin
               /\ last' = IF a.op = "none" THEN last
                          ELSE Op(a.op, t.outcome, a.role, a.text, <<>>)
               /\ pre' = IF a.op = "none" THEN pre ELSE Snapshot
               /\ frozen_loaded' =
                      IF /\ frozen_loaded = <<>>
                         /\ a.op = "load"
                         /\ t.outcome = "ok"
                         /\ disk.frozenSegments # <<>>
                      THEN <<t.history>> ELSE frozen_loaded
        /\ twin' = [timeline |-> TimelineAfter(twin.timeline, b, disk, srcFile),
                    log |-> Append(twin.log, <<a, b>>)]
        /\ UNCHANGED <<disk, srcFile, saved, gen, routerVars, processorVars,
                       directory, dialog_names, credentials, instance, chat>>

\* two new Timelines, and the dialog file they read: none, the file
\* _save_new_dialog writes (no message, no segment), a dialog without and
\* with a frozen segment, or a file whose segment reaches past the end of
\* its history
InitTwins ==
    /\ history = <<>>
    /\ current_position = 0
    /\ frozen_segments = <<>>
    /\ start_mode = "interactive"
    /\ loaded_filename = None
    /\ disk \in
          {NoFile, EmptyFile,
           SaveData(<<Message("user", PlainText), Message("model", ReplyText)>>,
                    <<>>),
           SaveData(<<Message("user", MarkerText), Message("model", ReplyText)>>,
                    <<[start |-> 1, end |-> 1]>>),
           [exists |-> TRUE,
            history |-> <<Message("user", PlainText), Message("model", ReplyText)>>,
            frozenSegments |-> <<[start |-> 0, end |-> 2]>>,
            startMode |-> "frozen"]}
    /\ srcFile = FALSE
    /\ origin = <<>>
    /\ saved = NoSnapshot
    /\ last = Op("init", "ok", None, <<>>, <<>>)
    /\ pre = Snapshot
    /\ steps = 0
    /\ frozen_loaded = <<>>
    /\ gen = NoCall
    /\ NoManager
    /\ NoProcessor
    /\ NoEnvironment

SpecTwins == InitTwins /\ [][TwinStep]_vars

\* C33 as stated: a load that fails, for whatever reason, leaves history,
\* frozen_segments, current_position, start_mode and loaded_filename as
\* they were before the call
C33_FailedLoadChangesNothing ==
    (last.op = "load" /\ last.outcome # "ok") =>
        /\ history = pre.history
        /\ frozen_segments = pre.frozen_segments
        /\ current_position = pre.current_position
        /\ start_mode = pre.start_mode
        /\ loaded_filename = pre.loaded_filename

\* the second Timeline's latest operation was b
TwinDid(b) == twin.log # <<>> /\ twin.log[Len(twin.log)][2].op = b

\* C34: two Timelines that load the same file, each with success, hold the
\* same history, frozen_segments, current_position and start_mode,
\* whatever each held before
C34_LoadDeterminesTimeline ==
    (/\ last.op = "load"
     /\ last.outcome = "ok"
     /\ twin.timeline.outcome = "ok"
     /\ TwinDid("load")) =>
        /\ history = twin.timeline.history
        /\ frozen_segments = twin.timeline.frozen_segments
        /\ current_position = twin.timeline.current_position
        /\ start_mode = twin.timeline.start_mode

\* both loaded a dialog with a frozen segment in the same step; one held
\* two messages and the other, new, none
C34_Witness ==
    /\ last.op = "load"
    /\ last.outcome = "ok"
    /\ TwinDid("load")
    /\ twin.timeline.outcome = "ok"
    /\ Len(pre.history) = 2
    /\ Len(frozen_segments) = 1
    /\ twin.log[Len(twin.log)][1].op = "load"
    /\ \A i \in 1..(Len(twin.log) - 1) :
          twin.log[i][1].op = "add_message" /\ twin.log[i][2].op = "none"

\* the first Timeline loaded the file of a newly created dialog while the
\* second was left as constructed, and since then every step has made the
\* same add_message call on both, at least once
SameAddsAfterCreation ==
    /\ disk = EmptyFile
    /\ Len(twin.log) >= 2
    /\ twin.log[1][1].op = "load"
    /\ twin.log[1][2].op = "none"
    /\ \A i \in 2..Len(twin.log) :
          /\ twin.log[i][1].op = "add_message"
          /\ twin.log[i][2] = twin.log[i][1]

\* C38 as stated: a new Timeline and one loaded from a newly created file
\* have the same history and the same current_position after the same
\* add_message calls
C38_NewAndLoadedEquivalent ==
    SameAddsAfterCreation =>
        /\ history = twin.timeline.history
        /\ current_position = twin.timeline.current_position

---------------------------------------------------------------------------
(* Timeline.display_timeline, on any Timeline whose frozen segments are     *)
(* sorted and disjoint: the Timeline is a plain object, and its caller may  *)
(* have put the segments anywhere in history                                *)

\* the representation display_timeline builds, as the list of its entries:
\* an F(...) group or one interactive index, each index with the glyph that
\* stands for it ('H' for the index equal to current_position)
display_timeline(n, segments, position) ==
    LET Shown(r) ==
            [j \in 1..Len(r) |->
                [index |-> r[j],
                 glyph |-> IF r[j] = position THEN "H" ELSE "number"]]
        Interactive(r) ==
            [j \in 1..Len(r) |-> [frozen |-> FALSE, shown |-> Shown(<<r[j]>>)]]
        next_frozen_start == IF segments # <<>> THEN segments[1].start ELSE n
        OfSegment(segment) ==
            <<[frozen |-> TRUE,
               shown |-> Shown(Range(segment.start, segment.end + 1))]>>
            \o (IF segment.end < n - 1
                THEN Interactive(Range(segment.end + 1, Min(next_frozen_start, n)))
                ELSE <<>>)
        upto[k \in 0..Len(segments)] ==
            IF k = 0 THEN <<>> ELSE upto[k - 1] \o OfSegment(segments[k])
        last_frozen_end_index ==
            IF segments = <<>> THEN -1 ELSE segments[Len(segments)].end
    IN  upto[Len(segments)]
        \o (IF last_frozen_end_index < n - 1
            THEN Interactive(Range(last_frozen_end_index + 1, n))
            ELSE <<>>)

\* Timeline.display_timeline(): it prints, and changes nothing
DisplayTimeline ==
    /\ Step
    /\ last' = [shown |-> display_timeline(Len(history), frozen_segments,
                                            current_position)]
               @@ Op("display_timeline", "ok", None, <<>>, <<>>)
    /\ pre' = Snapshot
    /\ UNCHANGED <<history, current_position, frozen_segments, start_mode,
                   loaded_filename, disk, srcFile, origin, saved, frozen_loaded,
                   gen, routerVars, processorVars, environmentVars>>

InitDisplay ==
    /\ \E n \in 0..MaxLoadLen :
          /\ history = [i \in 1..n |-> RowMessage(i)]
          /\ frozen_segments \in SegmentLists(n)
          /\ current_position \in 0..Max(n - 1, 0)
          /\ origin = Tags(n, "added")
    /\ start_mode = DerivedStartMode(frozen_segments)
    /\ loaded_filename = None
    /\ disk = NoFile
    /\ srcFile = FALSE
    /\ saved = NoSnapshot
    /\ last = Op("init", "ok", None, <<>>, <<>>)
    /\ pre = Snapshot
    /\ steps = 0
    /\ frozen_loaded = <<>>
    /\ gen = NoCall
    /\ NoManager
    /\ NoProcessor
    /\ NoEnvironment

SpecDisplay == InitDisplay /\ [][DisplayTimeline]_vars

\* the entries of a representation that stand for the index i
Mentions(shown, i) ==
    {p \in {<<e, j>> : e \in 1..Len(shown), j \in 0..MaxLoadLen + 1} :
        /\ p[2] >= 1
        /\ p[2] <= Len(shown[p[1]].shown)
        /\ shown[p[1]].shown[p[2]].index = i}

\* C31 as stated: the representation mentions every history index exactly
\* once, inside an F(...) group when the index lies in a frozen segment and
\* as an interactive entry otherwise, with 'H' for the index equal to
\* current_position, wherever the sorted, disjoint segments lie
C31_EveryIndexShownOnce ==
    last.op = "display_timeline" =>
        \A i \in 0..(Len(history) - 1) :
            /\ Cardinality(Mentions(last.shown, i)) = 1
            /\ \A p \in Mentions(last.shown, i) :
                  /\ last.shown[p[1]].frozen =
                         (\E k \in 1..Len(frozen_segments) :
                             /\ frozen_segments[k].start <= i
                             /\ i <= frozen_segments[k].end)
                  /\ (last.shown[p[1]].shown[p[2]].glyph = "H") <=>
                         (i = current_position)

---------------------------------------------------------------------------
(* ChatUI: chat_ui.py. The widget reacts to messages taken one at a time    *)
(* from its queue: TextSubmitted, posted by the text area when the user     *)
(* submits, and LLMCallComplete or LLMCallError, posted by the call manager *)
(* when a pipeline call it was given has ended. A submission is numbered by *)
(* its place among the submissions; a call carries the number of the        *)
(* submission it was made for.                                              *)

\* ChatTextArea.action_submit: the key binding of an enabled text area posts
\* TextSubmitted; the handler runs later, when the widget takes the message
SubmitText ==
    /\ ~chat.disabled
    /\ chat.submitted < MaxSteps
    /\ chat' = [chat EXCEPT
                   !.submitted = @ + 1,
                   !.queue = Append(@, [type |-> "TextSubmitted",
                                        id |-> chat.submitted + 1])]
    /\ UNCHANGED <<timelineVars, gen, routerVars, processorVars, directory,
                   dialog_names, credentials, instance, twin>>

\* ChatUI.handle_text_submission: the input is disabled and the call is
\* handed to the call manager
HandleTextSubmitted ==
    /\ chat.queue # <<>>
    /\ Head(chat.queue).type = "TextSubmitted"
    /\ chat' = [chat EXCEPT
                   !.disabled = TRUE,
                   !.queue = Tail(@),
                   !.running = @ \cup {Head(chat.queue).id},
                   !.calls = @ \cup {Head(chat.queue).id}]
    /\ UNCHANGED <<timelineVars, gen, routerVars, processorVars, directory,
                   dialog_names, credentials, instance, twin>>

\* LLMCallManager: a call it runs ends, by its return or by an exception,
\* and the manager posts the event to the ChatUI
CallEnds(id, event) ==
    /\ id \in chat.running
    /\ chat' = [chat EXCEPT
                   !.running = @ \ {id},
                   !.queue = Append(@, [type |-> event, id |-> id])]
    /\ UNCHANGED <<timelineVars, gen, routerVars, processorVars, directory,
                   dialog_names, credentials, instance, twin>>

\* ChatUI.handle_llm_call_complete and handle_llm_call_error: the reply or
\* the error is shown and the input is enabled
HandleCallEnd ==
    /\ chat.queue # <<>>
    /\ Head(chat.queue).type \in {"LLMCallComplete", "LLMCallError"}
    /\ chat' = [chat EXCEPT
                   !.disabled = FALSE,
                   !.queue = Tail(@),
                   !.calls = @ \ {Head(chat.queue).id}]
    /\ UNCHANGED <<timelineVars, gen, routerVars, processorVars, directory,
                   dialog_names, credentials, instance, twin>>

NextChat ==
    \/ SubmitText
    \/ HandleTextSubmitted
    \/ \E id \in 1..MaxSteps :
          \E event \in {"LLMCallComplete", "LLMCallError"} : CallEnds(id, event)
    \/ HandleCallEnd

\* nothing has run when the ChatUI is mounted. The widget takes every
\* message that waits in its queue, and a call the manager runs ends
SpecChat ==
    /\ InitProviders
    /\ [][NextChat]_vars
    /\ WF_vars(HandleTextSubmitted)
    /\ WF_vars(HandleCallEnd)
    /\ WF_vars(\E id \in 1..MaxSteps :
                  \E event \in {"LLMCallComplete", "LLMCallError"} :
                      CallEnds(id, event))

\* C39 as stated, its safety part: while a call is in flight, from the
\* handling of its TextSubmitted until the LLMCallComplete or LLMCallError
\* made for it is handled, the input is disabled, and no more than one call
\* is in flight
C39_OneCallInFlight ==
    chat.calls # {} => (chat.disabled /\ Cardinality(chat.calls) = 1)

\* the liveness part of C39: an input that was disabled for a submission
\* is enabled again, whether the call completes or errors
EventuallyEnabled == chat.disabled ~> ~chat.disabled

====
